---- MODULE Spec2Model ----
(***************************************************************************)
(* A model of the CurveFitter class of src/curve-fitting.js (4PL curve     *)
(* fitting: fourPL, inverse4PL, the Levenberg-Marquardt optimize loop,     *)
(* fit, generateCurvePoints, calculateConcentration) and of the            *)
(* StatisticsUtils object of src/statistics.js (oneWayANOVA, tTest,        *)
(* tukeyHSD, calculateGlobalPooledVariance, analyzeDay), and of the plate   *)
(* bookkeeping of the ELISAPlateAnalyzer class of src/curve-fitting.js     *)
(* (switchPlate, clearAll, clearAllPlateData, fitCurve, clearSelectedWells *)
(* and the import of a multi-plate CSV file).                              *)
(*                                                                         *)
(* JavaScript numbers are modelled as decimal floating point numbers of    *)
(* Precision significant digits, <<"fin", m, e>> standing for m * 10^e,    *)
(* together with NaN, +Infinity and -Infinity.  Every arithmetic operator  *)
(* rounds its result to Precision digits, so results are inexact in the    *)
(* way IEEE doubles are, at a coarser grain.  Negative zero is not         *)
(* distinguished from zero.                                                *)
(*                                                                         *)
(* Spec follows one fitter through fits, the calls between them and the    *)
(* writes of its caller to a result; SpecCalls applies the methods that    *)
(* compute from their arguments alone to more arguments; SpecOptimize is   *)
(* one run of the loop of optimize, and SpecOptimizeFair adds that the     *)
(* run goes on; SpecStats is one call of a StatisticsUtils function, from  *)
(* its arguments to its result; SpecPlates follows the analyzer's plates,  *)
(* the plate it shows and the parameters it holds for each plate through   *)
(* the handlers of its buttons, tabs and drop zone.                        *)
(***************************************************************************)
EXTENDS Integers, Sequences, FiniteSets, TLC

(***************************************************************************)
(* Numbers                                                                 *)
(***************************************************************************)

\* Significant decimal digits kept by every arithmetic result.
Precision == 3

NaN == <<"nan", 0, 0>>

PosInf == <<"inf", 1, 0>>

NegInf == <<"inf", -1, 0>>

\* JavaScript null (a missing value, never an operand of arithmetic here).
Null == <<"null", 0, 0>>

Zero == <<"fin", 0, 0>>

\* Op applied to the values of its arguments, each evaluated once.
Once1(Op(_), x) == CHOOSE r \in {Op(a) : a \in {x}} : TRUE

Once2(Op(_, _), x, y) == CHOOSE r \in {Op(a, b) : a \in {x}, b \in {y}} : TRUE

Once3(Op(_, _, _), x, y, z) ==
    CHOOSE r \in {Op(a, b, c) : a \in {x}, b \in {y}, c \in {z}} : TRUE

Once4(Op(_, _, _, _), x, y, z, w) ==
    CHOOSE r \in {Op(a, b, c, d) : a \in {x}, b \in {y}, c \in {z}, d \in {w}} : TRUE

AbsInt(n) == IF n < 0 THEN -n ELSE n

SignInt(n) == IF n < 0 THEN -1 ELSE IF n > 0 THEN 1 ELSE 0

MinInt(a, b) == IF a < b THEN a ELSE b

RECURSIVE NumDigits(_)
NumDigits(a) == IF a < 10 THEN 1 ELSE 1 + NumDigits(a \div 10)

RECURSIVE StripZeros(_, _)
StripZeros(m, e) ==
    IF m # 0 /\ m % 10 = 0 THEN StripZeros(m \div 10, e + 1) ELSE <<m, e>>

\* The number nearest to m * 10^e with Precision digits (ties away from
\* zero), in canonical form; beyond the double range it is Infinity or 0.
Fin(m, e) ==
    IF m = 0 THEN Zero
    ELSE LET a  == AbsInt(m)
             nd == NumDigits(a)
             sh == IF nd > Precision THEN nd - Precision ELSE 0
             r  == IF sh > 0 THEN (a + (10 ^ sh) \div 2) \div (10 ^ sh) ELSE a
             c  == StripZeros(r, e + sh)
             top == c[2] + NumDigits(c[1]) - 1
         IN  IF top > 308 THEN <<"inf", SignInt(m), 0>>
             ELSE IF top < -324 THEN Zero
             ELSE <<"fin", SignInt(m) * c[1], c[2]>>

FromInt(n) == Fin(n, 0)

One == FromInt(1)

IsNaN(x) == x[1] = "nan"

IsFiniteNum(x) == x[1] = "fin"

IsInf(x) == x[1] = "inf"

\* -1, 0 or 1; NaN has sign 0.
SignOf(x) == IF x[1] = "nan" THEN 0 ELSE SignInt(x[2])

\* Position of the leading digit of a non-zero finite number.
TopExp(x) == x[3] + NumDigits(AbsInt(x[2]))

NegOf(x) == IF x[1] = "nan" THEN NaN ELSE <<x[1], -x[2], x[3]>>

Neg(x) == Once1(NegOf, x)

AddOf(x, y) ==
    IF IsNaN(x) \/ IsNaN(y) THEN NaN
    ELSE IF IsInf(x) THEN (IF IsInf(y) /\ y[2] # x[2] THEN NaN ELSE x)
    ELSE IF IsInf(y) THEN y
    ELSE IF x[2] = 0 THEN y
    ELSE IF y[2] = 0 THEN x
    ELSE IF TopExp(x) - TopExp(y) > Precision + 1 THEN x
    ELSE IF TopExp(y) - TopExp(x) > Precision + 1 THEN y
    ELSE LET em == MinInt(x[3], y[3])
         IN  Fin(x[2] * 10 ^ (x[3] - em) + y[2] * 10 ^ (y[3] - em), em)

Add(x, y) == Once2(AddOf, x, y)

Sub(x, y) == Add(x, Neg(y))

MulOf(x, y) ==
    IF IsNaN(x) \/ IsNaN(y) THEN NaN
    ELSE IF IsInf(x) \/ IsInf(y)
         THEN (IF x[2] = 0 \/ y[2] = 0 THEN NaN
               ELSE <<"inf", SignInt(x[2]) * SignInt(y[2]), 0>>)
    ELSE Fin(x[2] * y[2], x[3] + y[3])

Mul(x, y) == Once2(MulOf, x, y)

DivOf(x, y) ==
    IF IsNaN(x) \/ IsNaN(y) THEN NaN
    ELSE IF IsInf(x)
         THEN (IF IsInf(y) THEN NaN
               ELSE <<"inf", x[2] * (IF y[2] < 0 THEN -1 ELSE 1), 0>>)
    ELSE IF IsInf(y) THEN Zero
    ELSE IF y[2] = 0
         THEN (IF x[2] = 0 THEN NaN ELSE <<"inf", SignInt(x[2]), 0>>)
    ELSE IF x[2] = 0 THEN Zero
    ELSE LET a == AbsInt(x[2])
             k == 2 * Precision + 1 - NumDigits(a)
             q == (a * 10 ^ k) \div AbsInt(y[2])
         IN  Fin(SignInt(x[2]) * SignInt(y[2]) * q, x[3] - k - y[3])

Div(x, y) == Once2(DivOf, x, y)

\* x < y, x <= y as JavaScript compares numbers: false when either is NaN.
LtOf(x, y) == ~IsNaN(x) /\ ~IsNaN(y) /\ x # y /\ SignOf(Sub(x, y)) < 0

Lt(x, y) == Once2(LtOf, x, y)

LeOf(x, y) == ~IsNaN(x) /\ ~IsNaN(y) /\ (x = y \/ Lt(x, y))

Le(x, y) == Once2(LeOf, x, y)

Gt(x, y) == Lt(y, x)

Ge(x, y) == Le(y, x)

\* Math.max, Math.min, Math.abs.
MaxNOf(x, y) == IF IsNaN(x) \/ IsNaN(y) THEN NaN ELSE IF Lt(x, y) THEN y ELSE x

MaxN(x, y) == Once2(MaxNOf, x, y)

MinNOf(x, y) == IF IsNaN(x) \/ IsNaN(y) THEN NaN ELSE IF Lt(y, x) THEN y ELSE x

MinN(x, y) == Once2(MinNOf, x, y)

AbsNOf(x) == IF IsNaN(x) THEN NaN ELSE <<x[1], AbsInt(x[2]), x[3]>>

AbsN(x) == Once1(AbsNOf, x)

\* 10000 * 10^(j/10), 10000 * 10^(j/100), 10000 * 10^(j/1000), j = 0..9.
PowTable1 == <<10000, 12589, 15849, 19953, 25119, 31623, 39811, 50119, 63096, 79433>>

PowTable2 == <<10000, 10233, 10471, 10715, 10965, 11220, 11482, 11749, 12023, 12303>>

PowTable3 == <<10000, 10023, 10046, 10069, 10093, 10116, 10139, 10162, 10186, 10209>>

\* The largest digit j with table[j + 1] <= f.
TableDigitOf(table, f) ==
    CHOOSE j \in 0..9 : table[j + 1] <= f /\ (j = 9 \/ table[j + 2] > f)

TableDigit(table, f) == Once2(TableDigitOf, table, f)

\* Math.log10: the logarithm to three decimals, found digit by digit.
Log10NOf(x) ==
    IF IsNaN(x) \/ SignOf(x) < 0 THEN NaN
    ELSE IF IsInf(x) THEN PosInf
    ELSE IF x[2] = 0 THEN NegInf
    ELSE LET nd == NumDigits(x[2])
             f0 == x[2] * 10 ^ (5 - nd)
             d1 == TableDigit(PowTable1, f0)
             f1 == (f0 * 10000) \div PowTable1[d1 + 1]
             d2 == TableDigit(PowTable2, f1)
             f2 == (f1 * 10000) \div PowTable2[d2 + 1]
             d3 == TableDigit(PowTable3, f2)
         IN  Fin((x[3] + nd - 1) * 1000 + d1 * 100 + d2 * 10 + d3, -3)

Log10N(x) == Once1(Log10NOf, x)

\* Math.pow(10, z): z is cut to three decimals and the factors multiplied.
Pow10NOf(z) ==
    IF IsNaN(z) THEN NaN
    ELSE IF IsInf(z) THEN (IF z[2] > 0 THEN PosInf ELSE Zero)
    ELSE IF z[2] = 0 THEN One
    ELSE IF TopExp(z) > 3 THEN (IF z[2] > 0 THEN PosInf ELSE Zero)
    ELSE LET t == IF z[3] >= -3 THEN z[2] * 10 ^ (z[3] + 3)
                  ELSE IF -3 - z[3] > Precision THEN 0
                  ELSE SignInt(z[2]) *
                       ((AbsInt(z[2]) + (10 ^ (-3 - z[3])) \div 2) \div (10 ^ (-3 - z[3])))
             n == t \div 1000
             r == t % 1000
             p == (PowTable1[(r \div 100) + 1] * PowTable2[((r \div 10) % 10) + 1]) \div 10000
         IN  Fin((p * PowTable3[(r % 10) + 1]) \div 10000, n - 4)

Pow10N(z) == Once1(Pow10NOf, z)

RECURSIVE RepMul(_, _)
RepMul(b, n) == IF n = 0 THEN One ELSE Mul(b, RepMul(b, n - 1))

\* Math.pow(b, e).
PowNOf(b, e) ==
    IF IsNaN(e) THEN NaN
    ELSE IF e = Zero THEN One
    ELSE IF IsNaN(b) THEN NaN
    ELSE IF IsInf(e)
         THEN (IF AbsN(b) = One THEN NaN
               ELSE IF Lt(One, AbsN(b)) = (e[2] > 0) THEN PosInf ELSE Zero)
    ELSE IF IsInf(b) \/ b = Zero
         THEN (IF (e[2] > 0) = IsInf(b)
               THEN (IF b[2] < 0 /\ e[3] = 0 /\ e[2] % 2 = 1 THEN NegInf ELSE PosInf)
               ELSE Zero)
    ELSE IF e[3] = 0 /\ AbsInt(e[2]) <= 16
         THEN (IF e[2] > 0 THEN RepMul(b, e[2]) ELSE Div(One, RepMul(b, -e[2])))
    ELSE IF b[2] < 0 THEN NaN
    ELSE Pow10N(Mul(e, Log10N(b)))

PowN(b, e) == Once2(PowNOf, b, e)

(***************************************************************************)
(* CurveFitter: the pure methods                                           *)
(***************************************************************************)

Params(a, b, c, d) == [A |-> a, B |-> b, C |-> c, D |-> d]

Pt(px, py) == [x |-> px, y |-> py]

\* fourPL(x, params)
FourPLOf(x, params) ==
    IF Le(x, Zero) THEN params.A
    ELSE Add(params.D,
             Div(Sub(params.A, params.D),
                 Add(One, PowN(Div(x, params.C), params.B))))

FourPL(x, params) == Once2(FourPLOf, x, params)

\* inverse4PL without its range check on y.
Inverse4PLNoRange(y, params) ==
    LET ratio == Sub(Div(Sub(params.A, params.D), Sub(y, params.D)), One)
    IN  IF Le(ratio, Zero) THEN Null
        ELSE Mul(params.C, PowN(ratio, Div(One, params.B)))

\* inverse4PL(y, params); Null is the JavaScript null it returns.
Inverse4PLOf(y, params) ==
    LET minY == MinN(params.A, params.D)
        maxY == MaxN(params.A, params.D)
        ratio == Sub(Div(Sub(params.A, params.D), Sub(y, params.D)), One)
    IN  IF Le(y, minY) \/ Ge(y, maxY) THEN Null
        ELSE IF Le(ratio, Zero) THEN Null
        ELSE Mul(params.C, PowN(ratio, Div(One, params.B)))

Inverse4PL(y, params) == Once2(Inverse4PLOf, y, params)

\* The sum of an array, added left to right from 0 (reduce).
RECURSIVE SumSeq(_)
SumSeqOf(s) == IF s = <<>> THEN Zero ELSE Add(SumSeq(SubSeq(s, 1, Len(s) - 1)), s[Len(s)])

SumSeq(s) == Once1(SumSeqOf, s)

\* calculateSSR(data, params)
CalculateSSROf(data, params) ==
    SumSeq([i \in 1..Len(data) |->
              PowN(Sub(data[i].y, FourPL(data[i].x, params)), FromInt(2))])

CalculateSSR(data, params) == Once2(CalculateSSROf, data, params)

\* calculateSST(data)
CalculateSSTOf(data) ==
    LET mean == Div(SumSeq([i \in 1..Len(data) |-> data[i].y]), FromInt(Len(data)))
    IN  SumSeq([i \in 1..Len(data) |-> PowN(Sub(data[i].y, mean), FromInt(2))])

CalculateSST(data) == Once1(CalculateSSTOf, data)

\* calculateRSquared(data, params)
CalculateRSquared(data, params) ==
    Sub(One, Div(CalculateSSR(data, params), CalculateSST(data)))

\* v put into the ascending array rest, after the elements not above it.
InsertAscOf(rest, v) ==
    LET k == Cardinality({i \in 1..Len(rest) : Le(rest[i], v)})
    IN  SubSeq(rest, 1, k) \o <<v>> \o SubSeq(rest, k + 1, Len(rest))

InsertAsc(rest, v) == Once2(InsertAscOf, rest, v)

\* Array.prototype.sort((a, b) => a - b) on numbers none of which is NaN.
RECURSIVE SortAsc(_)
SortAscOf(s) ==
    IF s = <<>> THEN <<>> ELSE InsertAsc(SortAsc(SubSeq(s, 1, Len(s) - 1)), s[Len(s)])

SortAsc(s) == Once1(SortAscOf, s)

\* estimateInitialParams(data)
EstimateInitialParamsOf(data) ==
    LET sortedY == SortAsc([i \in 1..Len(data) |-> data[i].y])
        sortedX == SortAsc([i \in 1..Len(data) |-> data[i].x])
        mid == Len(sortedX) \div 2
        C == IF Len(sortedX) % 2 # 0 THEN sortedX[mid + 1]
             ELSE Div(Add(sortedX[mid], sortedX[mid + 1]), FromInt(2))
    IN  Params(sortedY[1], One, C, sortedY[Len(sortedY)])

EstimateInitialParams(data) == Once1(EstimateInitialParamsOf, data)

\* applyBounds without the floor of C.
ApplyBoundsNoFloor(p) ==
    Params(MaxN(Zero, p.A), MaxN(Zero, p.B), MaxN(Zero, p.C), MaxN(Zero, p.D))

\* applyBounds of optimize: A >= 0, B >= 0, C >= 1e-12, D >= 0.
ApplyBoundsOf(p) ==
    Params(MaxN(Zero, p.A), MaxN(Zero, p.B), MaxN(Fin(1, -12), p.C), MaxN(Zero, p.D))

ApplyBounds(p) == Once1(ApplyBoundsOf, p)

\* The filter of fit: p.x >= 0 && !isNaN(p.x) && !isNaN(p.y).
ValidPoint(p) == Ge(p.x, Zero) /\ ~IsNaN(p.x) /\ ~IsNaN(p.y)

FilterValid(data) == SelectSeq(data, ValidPoint)

\* generateCurvePoints with the step (logMax - logMin) / numPoints.
CurvePointsShort(minX, maxX, numPoints, useParams) ==
    LET logMin == Log10N(minX)
        logMax == Log10N(maxX)
        step == Div(Sub(logMax, logMin), FromInt(numPoints))
    IN  [i \in 1..numPoints |->
           LET x == Pow10N(Add(logMin, Mul(FromInt(i - 1), step)))
           IN  Pt(x, FourPL(x, useParams))]

\* generateCurvePoints, once useParams is known: numPoints log-spaced points.
CurvePoints(minX, maxX, numPoints, useParams) ==
    LET logMin == Log10N(minX)
        logMax == Log10N(maxX)
        step == Div(Sub(logMax, logMin), FromInt(numPoints - 1))
    IN  [i \in 1..numPoints |->
           LET x == Pow10N(Add(logMin, Mul(FromInt(i - 1), step)))
           IN  Pt(x, FourPL(x, useParams))]

(***************************************************************************)
(* CurveFitter: fit, optimize and the calls on a fitter                    *)
(***************************************************************************)

\* The fitter and its caller.  An object is a reference into heap; 0 is null.
VARIABLES
    pc,             \* "idle", or "opt" (in the loop of optimize), or "ret" (after it)
    caller,         \* "fit" or "optimize": who entered the loop
    data,           \* optimize's data
    params,         \* optimize's params
    lambda,         \* optimize's lambda
    prevSSR,        \* optimize's prevSSR
    iter,           \* optimize's iter
    maxIterations,  \* optimize's maxIterations
    tolerance,      \* optimize's tolerance
    exit,           \* how the loop ended: "converged", "lambda", "budget", or "" inside it
    heap,           \* the params objects alive: reference -> {A, B, C, D}
    fitterParams,   \* this.params: a reference, or 0
    fitterRSquared, \* this.rSquared: a number, or Null
    held,           \* the params object of the FitResult the caller keeps, or 0
    lastFit,        \* the parameters the most recent successful fit found: <<p>>, or <<>>
    last,           \* the call made last: [op, args, status, ret]
    plates,         \* the analyzer's this.plates: index -> plate object
    plateData,      \* this.plateData: a reference to a plate object, or Undefined
    currentPlateIndex, \* this.currentPlateIndex: whatever switchPlate was given
    plateParams,    \* this.plateParams: index -> params of the plate's fit, or Null
    fittedParams,   \* this.fittedParams: params, Null or Undefined
    selectedWells,  \* this.selectedWells
    reads           \* the files FileReaders are reading, onload still to come

plateVars == <<plates, plateData, currentPlateIndex, plateParams, fittedParams,
               selectedWells, reads>>

vars == <<pc, caller, data, params, lambda, prevSSR, iter, maxIterations, tolerance,
          exit, heap, fitterParams, fitterRSquared, held, lastFit, last, plateVars>>

loopVars == <<caller, data, params, lambda, prevSSR, iter, maxIterations, tolerance, exit>>

fitterVars == <<heap, fitterParams, fitterRSquared, held, lastFit>>

\* The analyzer has 10 plates.
NumPlates == 10

\* The wells of a plate that are followed: A1 to D1 hold the standards of a
\* layout and E1 a sample; the other wells of the 96 stay empty.
WellIds == {"A1", "B1", "C1", "D1", "E1"}

\* A well as createEmptyPlate makes it.
EmptyWell ==
    [type |-> "empty", concentration |-> Null, absorbance |-> Null,
     calculatedConcentration |-> Null]

\* The i-th plate object made by the g-th round of createEmptyPlate calls.
PlateRef(g, i) == <<"plate", g, i>>

\* createEmptyPlate(): a new object, every well empty.
CreateEmptyPlate(ref) == [ref |-> ref, wells |-> [w \in WellIds |-> EmptyWell]]

\* for (let i = 0; i < 10; i++) this.plates[i] = this.createEmptyPlate()
EmptyPlates(g) == [i \in 0..(NumPlates - 1) |-> CreateEmptyPlate(PlateRef(g, i))]

\* new Array(n).fill(null)
NullArray(n) == [i \in 0..(n - 1) |-> Null]

\* The analyzer after its constructor.
Constructed ==
    /\ plates = EmptyPlates(0)
    /\ plateData = PlateRef(0, 0)
    /\ currentPlateIndex = Zero
    /\ plateParams = NullArray(6)
    /\ fittedParams = Null
    /\ selectedWells = {}
    /\ reads = <<>>

Ten == FromInt(10)

\* optimize's defaults (maxIterations = 100000, tolerance = 1e-15).
DefaultMaxIterations == 100000

DefaultTolerance == Fin(1, -15)

NoParams == Params(Zero, Zero, Zero, Zero)

Call(op, args, status, ret) == [op |-> op, args |-> args, status |-> status, ret |-> ret]

\* The standard curves a caller hands to fit.
Good4 ==
    <<Pt(Zero, Zero), Pt(FromInt(2), One), Pt(FromInt(6), Fin(15, -1)),
      Pt(FromInt(18), Fin(18, -1))>>

NegY ==
    <<Pt(One, FromInt(-1)), Pt(FromInt(2), Fin(5, -1)), Pt(FromInt(4), One),
      Pt(FromInt(8), FromInt(2))>>

ZeroX ==
    <<Pt(Zero, One), Pt(Zero, FromInt(2)), Pt(Zero, FromInt(3)), Pt(FromInt(5), FromInt(4))>>

Short3 == <<Pt(One, One), Pt(FromInt(2), FromInt(2)), Pt(FromInt(3), FromInt(3))>>

Invalid5 ==
    <<Pt(NaN, One), Pt(FromInt(-1), One), Pt(One, One), Pt(FromInt(2), FromInt(2)),
      Pt(FromInt(3), NaN)>>

Clean5 == <<Pt(NaN, FromInt(9))>> \o Good4

InfX == Short3 \o <<Pt(PosInf, FromInt(4))>>

InfY == Short3 \o <<Pt(FromInt(4), PosInf)>>

DataSets == {Good4, NegY, ZeroX, Short3, Invalid5, Clean5, InfX, InfY}

\* What solveLinearSystem can hand back for the damped normal equations: no
\* solution (null), or a vector.  The Jacobian's finite differences (h = 1e-6)
\* need more digits than the numbers of this model carry, so the solution is
\* an input of the iteration rather than computed.
Deltas ==
    { <<Zero, Zero, FromInt(-2), Zero>>,
      <<Zero, Zero, Zero, Fin(2, -1)>>,
      <<Zero, Zero, Zero, Fin(5, -2)>>,
      <<FromInt(-3), FromInt(-2), FromInt(-5), FromInt(-3)>>,
      <<Zero, Zero, Zero, Zero>>,
      <<Fin(1, -1), One, One, Fin(1, -1)>>,
      <<NaN, Zero, Zero, Zero>>,
      <<Zero, PosInf, Zero, Zero>> }

SolveResults == {Null} \cup Deltas

\* !delta || delta.some(d => !isFinite(d))
StepFailed(delta) == delta = Null \/ \E i \in 1..4 : ~IsFiniteNum(delta[i])

\* A ceiling ten times higher.
LambdaExceededLate(l) == Gt(l, Fin(1, 16))

\* lambda > 1e15
LambdaExceeded(l) == Gt(l, Fin(1, 15))

\* A loop that makes one pass more.
LoopContinuesInclusive(i, maxIter) == i <= maxIter

\* The loop condition of optimize: iter < maxIterations.
LoopContinues(i, maxIter) == i < maxIter

\* A failed or rejected step: lambda *= 10, and the lambda ceiling.
Rejected(p, l, ssr) ==
    [params |-> p, lambda |-> Mul(l, Ten), prevSSR |-> ssr,
     brk |-> IF LambdaExceeded(Mul(l, Ten)) THEN "lambda" ELSE ""]

\* An accepted step: the candidate is adopted, lambda shrinks to l2, and the
\* relative change of the SSR decides convergence.
Accepted(newParams, l2, ssr, newSSR, tol) ==
    IF Lt(Div(AbsN(Sub(ssr, newSSR)), Add(ssr, Fin(1, -15))), tol)
    THEN [params |-> newParams, lambda |-> l2, prevSSR |-> ssr, brk |-> "converged"]
    ELSE [params |-> newParams, lambda |-> l2, prevSSR |-> newSSR,
          brk |-> IF LambdaExceeded(l2) THEN "lambda" ELSE ""]

\* An accepted step whose lambda has no floor.
DecideNoFloor(p, l, ssr, tol, newParams, newSSR) ==
    IF Lt(newSSR, ssr)
    THEN Accepted(newParams, Div(l, Ten), ssr, newSSR, tol)
    ELSE Rejected(p, l, ssr)

\* if (newSSR < prevSSR) accept, else reject.
Decide(p, l, ssr, tol, newParams, newSSR) ==
    IF Lt(newSSR, ssr)
    THEN Accepted(newParams, MaxN(Fin(1, -10), Div(l, Ten)), ssr, newSSR, tol)
    ELSE Rejected(p, l, ssr)

\* The candidate of a step: applyBounds(params + delta).
CandidateOf(p, delta) ==
    ApplyBounds(Params(Add(p.A, delta[1]), Add(p.B, delta[2]),
                       Add(p.C, delta[3]), Add(p.D, delta[4])))

Candidate(p, delta) == Once2(CandidateOf, p, delta)

\* One pass through the body of optimize's loop: the loop variables after it,
\* and brk: "" to go on to iter++, or why the loop is left.
IterationResult(d, p, l, ssr, tol, delta) ==
    IF StepFailed(delta) THEN Rejected(p, l, ssr)
    ELSE Decide(p, l, ssr, tol, Candidate(p, delta), CalculateSSR(d, Candidate(p, delta)))

\* The first lines of optimize, up to the loop: the loop variables there.
LoopEntry(who, d, initialParams, maxIter, tol) ==
    [caller |-> who, data |-> d, params |-> ApplyBounds(initialParams),
     lambda |-> Fin(1, -3), prevSSR |-> CalculateSSR(d, initialParams),
     iter |-> 0, maxIterations |-> maxIter, tolerance |-> tol]

EnterLoop(s) ==
    /\ pc' = "opt"
    /\ caller' = s.caller
    /\ data' = s.data
    /\ params' = s.params
    /\ lambda' = s.lambda
    /\ prevSSR' = s.prevSSR
    /\ iter' = s.iter
    /\ maxIterations' = s.maxIterations
    /\ tolerance' = s.tolerance
    /\ exit' = ""

LeaveLoop ==
    /\ pc' = "idle"
    /\ caller' = ""
    /\ data' = <<>>
    /\ params' = NoParams
    /\ lambda' = Zero
    /\ prevSSR' = Zero
    /\ iter' = 0
    /\ maxIterations' = 0
    /\ tolerance' = Zero
    /\ exit' = ""

\* A fit that drops the stored result when it throws.
FitForgetting(d) ==
    /\ pc = "idle"
    /\ IF Len(d) < 4 \/ Len(FilterValid(d)) < 4
       THEN /\ last' = Call("fit", <<d>>, "throw", Null)
            /\ fitterParams' = 0
            /\ fitterRSquared' = Null
            /\ UNCHANGED <<pc, loopVars, heap, held, lastFit, plateVars>>
       ELSE /\ EnterLoop(LoopEntry("fit", FilterValid(d),
                                   EstimateInitialParams(FilterValid(d)),
                                   DefaultMaxIterations, DefaultTolerance))
            /\ last' = Call("fit", <<d>>, "running", Null)
            /\ UNCHANGED <<fitterVars, plateVars>>

\* fit(data), up to the loop of optimize: it throws, or optimize starts.
Fit(d) ==
    /\ pc = "idle"
    /\ IF Len(d) < 4 \/ Len(FilterValid(d)) < 4
       THEN /\ last' = Call("fit", <<d>>, "throw", Null)
            /\ UNCHANGED <<pc, loopVars, fitterVars, plateVars>>
       ELSE /\ EnterLoop(LoopEntry("fit", FilterValid(d),
                                   EstimateInitialParams(FilterValid(d)),
                                   DefaultMaxIterations, DefaultTolerance))
            /\ last' = Call("fit", <<d>>, "running", Null)
            /\ UNCHANGED <<fitterVars, plateVars>>

\* optimize(data, initialParams, maxIterations, tolerance) called by itself.
Optimize(d, initialParams, maxIter, tol) ==
    /\ pc = "idle"
    /\ EnterLoop(LoopEntry("optimize", d, initialParams, maxIter, tol))
    /\ last' = Call("optimize", <<d, initialParams, maxIter, tol>>, "running", Null)
    /\ UNCHANGED <<fitterVars, plateVars>>

\* The loop variables take the values r of one pass: break, or iter++.
TakeStep(r) ==
    /\ params' = r.params
    /\ lambda' = r.lambda
    /\ prevSSR' = r.prevSSR
    /\ exit' = r.brk
    /\ pc' = IF r.brk = "" THEN "opt" ELSE "ret"
    /\ iter' = IF r.brk = "" THEN iter + 1 ELSE iter

\* One iteration of the loop of optimize.
Iterate(delta) ==
    /\ pc = "opt"
    /\ LoopContinues(iter, maxIterations)
    /\ TakeStep(IterationResult(data, params, lambda, prevSSR, tolerance, delta))
    /\ UNCHANGED <<caller, data, maxIterations, tolerance, fitterVars, last, plateVars>>

\* The loop condition fails: the iteration budget is used up.
LoopEnd ==
    /\ pc = "opt"
    /\ ~LoopContinues(iter, maxIterations)
    /\ pc' = "ret"
    /\ exit' = "budget"
    /\ UNCHANGED <<caller, data, params, lambda, prevSSR, iter, maxIterations, tolerance,
                   fitterVars, last, plateVars>>

\* A reference no live object has.
NewRef == CHOOSE r \in 1..(Cardinality(DOMAIN heap) + 1) : r \notin DOMAIN heap

\* The rest of fit: this.params = optimize(...), this.rSquared = ..., and
\* the result {params: this.params, rSquared: this.rSquared}.  The caller
\* keeps the result and lets go of an earlier one.
StoreFit(r, p, rsq) ==
    /\ heap' = [o \in {r} |-> p]
    /\ fitterParams' = r
    /\ fitterRSquared' = rsq
    /\ held' = r
    /\ lastFit' = <<p>>
    /\ last' = Call("fit", last.args, "ok", [params |-> r, rSquared |-> rsq])

FitReturn ==
    /\ pc = "ret"
    /\ caller = "fit"
    /\ StoreFit(NewRef, params, CalculateRSquared(data, params))
    /\ LeaveLoop
    /\ UNCHANGED plateVars

\* return params, to a caller of optimize itself.
OptimizeReturn ==
    /\ pc = "ret"
    /\ caller = "optimize"
    /\ last' = Call("optimize", last.args, "ok", params)
    /\ LeaveLoop
    /\ UNCHANGED <<fitterVars, plateVars>>

\* A params object or null, as a value: <<>> is null, <<p>> the object p.
None == <<>>

Some(p) == <<p>>

\* this.params as a value: None before a fit.
StoredParams == IF fitterParams = 0 THEN None ELSE Some(heap[fitterParams])

\* calculateConcentration(absorbance, params); passed = None when omitted.
CalculateConcentrationResult(stored, absorbance, passed) ==
    LET useParams == IF passed # None THEN passed ELSE stored
    IN  IF useParams = None
        THEN Call("calculateConcentration", <<absorbance, passed>>, "ok", Null)
        ELSE Call("calculateConcentration", <<absorbance, passed>>, "ok",
                  Inverse4PL(absorbance, useParams[1]))

\* generateCurvePoints(minX, maxX, numPoints, params); passed = None when omitted.
GenerateCurvePointsResult(stored, minX, maxX, numPoints, passed) ==
    LET useParams == IF passed # None THEN passed ELSE stored
    IN  IF useParams = None
        THEN Call("generateCurvePoints", <<minX, maxX, numPoints, passed>>, "throw", <<>>)
        ELSE Call("generateCurvePoints", <<minX, maxX, numPoints, passed>>, "ok",
                  CurvePoints(minX, maxX, numPoints, useParams[1]))

FourPLResult(x, p) == Call("fourPL", <<x, p>>, "ok", FourPL(x, p))

Inverse4PLResult(y, p) == Call("inverse4PL", <<y, p>>, "ok", Inverse4PL(y, p))

\* Arguments of the calls made on a fitter between fits.
SomeParams == {Params(Zero, One, FromInt(2), FromInt(2)), Params(FromInt(2), One, FromInt(2), Zero)}

PassedParams == {None} \cup {Some(p) : p \in SomeParams}

SomeY == {Zero, One, Fin(15, -1)}

SomeX == {Zero, One, FromInt(100)}

CallFourPL(x, p) ==
    /\ pc = "idle"
    /\ last' = FourPLResult(x, p)
    /\ UNCHANGED <<pc, loopVars, fitterVars, plateVars>>

CallInverse4PL(y, p) ==
    /\ pc = "idle"
    /\ last' = Inverse4PLResult(y, p)
    /\ UNCHANGED <<pc, loopVars, fitterVars, plateVars>>

CalculateConcentration(absorbance, passed) ==
    /\ pc = "idle"
    /\ last' = CalculateConcentrationResult(StoredParams, absorbance, passed)
    /\ UNCHANGED <<pc, loopVars, fitterVars, plateVars>>

GenerateCurvePoints(minX, maxX, numPoints, passed) ==
    /\ pc = "idle"
    /\ last' = GenerateCurvePointsResult(StoredParams, minX, maxX, numPoints, passed)
    /\ UNCHANGED <<pc, loopVars, fitterVars, plateVars>>

\* The caller assigns to a field of the params object of the result it keeps.
MutateResult(field, v) ==
    /\ pc = "idle"
    /\ held # 0
    /\ heap' = [heap EXCEPT ![held][field] = v]
    /\ last' = Call("mutate", <<field, v>>, "ok", Null)
    /\ UNCHANGED <<pc, loopVars, fitterParams, fitterRSquared, held, lastFit, plateVars>>

\* A fitter after construction: params and rSquared are null.
Init ==
    /\ pc = "idle"
    /\ caller = ""
    /\ data = <<>>
    /\ params = NoParams
    /\ lambda = Zero
    /\ prevSSR = Zero
    /\ iter = 0
    /\ maxIterations = 0
    /\ tolerance = Zero
    /\ exit = ""
    /\ heap = [o \in {} |-> NoParams]
    /\ fitterParams = 0
    /\ fitterRSquared = Null
    /\ held = 0
    /\ lastFit = <<>>
    /\ last = Call("new", <<>>, "ok", Null)
    /\ Constructed

\* The budgets and tolerances a direct caller of optimize passes.
MaxIterChoices == {0, 2}

ToleranceChoices == {DefaultTolerance, Fin(5, -1)}

\* The solutions of the normal equations met while the fitter's life is followed.
LifeSolveResults ==
    {Null, <<Zero, Zero, FromInt(-2), Zero>>,
     <<FromInt(-3), FromInt(-2), FromInt(-5), FromInt(-3)>>}

\* The life of one fitter: fits, calls between them, and what its caller
\* does to the results.
Next ==
    \/ \E d \in DataSets : Fit(d)
    \/ \E m \in MaxIterChoices : Optimize(Good4, EstimateInitialParams(Good4), m, DefaultTolerance)
    \/ \E delta \in LifeSolveResults : Iterate(delta)
    \/ LoopEnd
    \/ FitReturn
    \/ OptimizeReturn
    \/ \E x \in SomeX, p \in SomeParams : CallFourPL(x, p)
    \/ \E y \in SomeY, p \in SomeParams : CallInverse4PL(y, p)
    \/ \E y \in SomeY, p \in PassedParams : CalculateConcentration(y, p)
    \/ \E x \in SomeX, n \in {2}, p \in PassedParams :
          GenerateCurvePoints(x, FromInt(100), n, p)
    \/ \E f \in {"A", "D"} : MutateResult(f, FromInt(5))

Spec == Init /\ [][Next]_vars

(***************************************************************************)
(* The methods that compute from their arguments alone, over more of them  *)
(***************************************************************************)

\* Most points asked of generateCurvePoints.
MaxPoints == 3

CallParams ==
    {Params(a, b, FromInt(2), d) : a \in {Zero, FromInt(2)}, b \in {Zero, One, FromInt(2)},
                                   d \in {Zero, FromInt(2)}}

CallY ==
    {FromInt(-1), Zero, Fin(1, -3), Fin(5, -1), One, Fin(15, -1), FromInt(2), FromInt(3)}

CallX == {Zero, Fin(5, -1), FromInt(2), FromInt(100)}

CallMinX == {FromInt(-1), Zero, Fin(5, -1), One, FromInt(5)}

CallMaxX == {Fin(101, -2), FromInt(50), FromInt(200)}

NextCalls ==
    \/ \E x \in CallX, p \in CallParams : CallFourPL(x, p)
    \/ \E y \in CallY, p \in CallParams : CallInverse4PL(y, p)
    \/ \E y \in CallY, p \in CallParams : CalculateConcentration(y, Some(p))
    \/ \E minX \in CallMinX, maxX \in CallMaxX, n \in 1..MaxPoints,
          p \in {None, Some(Params(Zero, One, FromInt(2), FromInt(2)))} :
          GenerateCurvePoints(minX, maxX, n, p)

SpecCalls == Init /\ [][NextCalls]_vars

(***************************************************************************)
(* optimize alone: one run of the loop, from the arguments fit or a direct *)
(* caller passes                                                           *)
(***************************************************************************)

AtLoopEntry(s, call) ==
    /\ pc = "opt"
    /\ caller = s.caller
    /\ data = s.data
    /\ params = s.params
    /\ lambda = s.lambda
    /\ prevSSR = s.prevSSR
    /\ iter = s.iter
    /\ maxIterations = s.maxIterations
    /\ tolerance = s.tolerance
    /\ exit = ""
    /\ heap = [o \in {} |-> NoParams]
    /\ fitterParams = 0
    /\ fitterRSquared = Null
    /\ held = 0
    /\ lastFit = <<>>
    /\ last = call
    /\ Constructed

\* The datasets that pass the checks of fit.
FittableDataSets == {d \in DataSets : Len(d) >= 4 /\ Len(FilterValid(d)) >= 4}

\* A standard curve with a reading below the blank at a low concentration.
DipY ==
    <<Pt(Zero, Fin(9, -2)), Pt(One, Fin(-41, -2)), Pt(FromInt(10), Fin(23, -2)),
      Pt(FromInt(100), Fin(19, -2))>>

InitOptimize ==
    \/ \E d \in FittableDataSets \cup {DipY} :
          AtLoopEntry(LoopEntry("fit", FilterValid(d), EstimateInitialParams(FilterValid(d)),
                                DefaultMaxIterations, DefaultTolerance),
                      Call("fit", <<d>>, "running", Null))
    \/ \E d \in {Good4, NegY}, m \in MaxIterChoices, t \in ToleranceChoices :
          AtLoopEntry(LoopEntry("optimize", d, EstimateInitialParams(d), m, t),
                      Call("optimize", <<d, EstimateInitialParams(d), m, t>>, "running", Null))

NextOptimize ==
    \/ \E delta \in SolveResults : Iterate(delta)
    \/ LoopEnd
    \/ FitReturn
    \/ OptimizeReturn

SpecOptimize == InitOptimize /\ [][NextOptimize]_vars

\* The loop runs on: a synchronous call is not suspended.
SpecOptimizeFair == SpecOptimize /\ WF_vars(NextOptimize)

(***************************************************************************)
(* StatisticsUtils (src/statistics.js): the numeric helpers                *)
(***************************************************************************)

\* The largest r in lo..hi with r * r <= n, where lo * lo <= n.
RECURSIVE ISqrtBetween(_, _, _)
ISqrtBetween(n, lo, hi) ==
    IF lo >= hi THEN lo
    ELSE IF (lo + hi + 1) \div 2 <= n \div ((lo + hi + 1) \div 2)
         THEN ISqrtBetween(n, (lo + hi + 1) \div 2, hi)
         ELSE ISqrtBetween(n, lo, ((lo + hi + 1) \div 2) - 1)

\* Math.sqrt of m * 10^e, m > 0: the mantissa is widened to 2 * Precision or
\* 2 * Precision + 1 digits over an even exponent and its integer root taken.
SqrtOfPositive(m, e) ==
    LET w == 2 * Precision - NumDigits(m)
        sh == IF (e - w) % 2 = 0 THEN w ELSE w + 1
    IN  Fin(ISqrtBetween(m * 10 ^ sh, 0, 10 ^ (Precision + 1)), (e - sh) \div 2)

\* Math.sqrt
SqrtNOf(x) ==
    IF IsNaN(x) \/ SignOf(x) < 0 THEN NaN
    ELSE IF IsInf(x) THEN PosInf
    ELSE IF x[2] = 0 THEN Zero
    ELSE SqrtOfPositive(x[2], x[3])

SqrtN(x) == Once1(SqrtNOf, x)

\* Math.exp(z), as 10^(z * log10(e)).
ExpN(z) == Pow10N(Mul(z, Fin(434294, -6)))

\* mean(arr)
MeanOf(arr) ==
    IF Len(arr) = 0 THEN Zero ELSE Div(SumSeq(arr), FromInt(Len(arr)))

Mean(arr) == Once1(MeanOf, arr)

\* sumOfSquares(arr, mean)
SumOfSquaresOf(arr, mean) ==
    SumSeq([i \in 1..Len(arr) |-> PowN(Sub(arr[i], mean), FromInt(2))])

SumOfSquares(arr, mean) == Once2(SumOfSquaresOf, arr, mean)

\* variance(arr)
VarianceOf(arr) ==
    IF Len(arr) < 2 THEN Zero
    ELSE Div(SumOfSquares(arr, Mean(arr)), FromInt(Len(arr) - 1))

Variance(arr) == Once1(VarianceOf, arr)

\* a1 .. a5 and p of normalCDF.
NormalA == <<Fin(254829592, -9), Fin(-284496736, -9), Fin(1421413741, -9),
             Fin(-1453152027, -9), Fin(1061405429, -9)>>

NormalP == Fin(3275911, -7)

\* The polynomial of normalCDF in t, times t.
NormalPoly(t) ==
    Mul(Add(Mul(Add(Mul(Add(Mul(Add(Mul(NormalA[5], t), NormalA[4]), t), NormalA[3]), t),
                    NormalA[2]), t),
            NormalA[1]), t)

\* normalCDF(x), after x = Math.abs(x) / Math.sqrt(2): sign is that of the
\* argument, 1 when it is NaN.
NormalCDFOf(sign, x) ==
    Mul(Fin(5, -1),
        Add(One,
            Mul(sign,
                Sub(One, Mul(NormalPoly(Div(One, Add(One, Mul(NormalP, x)))),
                             ExpN(Mul(Neg(x), x)))))))

NormalCDF(x) ==
    Once2(NormalCDFOf, IF Lt(x, Zero) THEN FromInt(-1) ELSE One,
          Div(AbsN(x), SqrtN(FromInt(2))))

\* The end of regularizedIncompleteBeta: front * h / a, with logGamma and the
\* continued fraction of at most 200 steps.  Their digits are beyond the
\* numbers of this model, so for finite arguments the value is an input, cf;
\* a NaN among the arguments makes front, and the result, NaN.
ContinuedFraction(x, a, b, cf) ==
    IF IsNaN(x) \/ IsNaN(a) \/ IsNaN(b) THEN NaN ELSE cf

\* regularizedIncompleteBeta(x, a, b)
RECURSIVE RegularizedIncompleteBeta(_, _, _, _)
RegularizedIncompleteBetaOf(x, a, b, cf) ==
    IF Lt(x, Zero) \/ Gt(x, One) THEN Zero
    ELSE IF x = Zero THEN Zero
    ELSE IF x = One THEN One
    ELSE IF Gt(x, Div(Add(a, One), Add(Add(a, b), FromInt(2))))
         THEN Sub(One, RegularizedIncompleteBeta(Sub(One, x), b, a, cf))
    ELSE ContinuedFraction(x, a, b, cf)

RegularizedIncompleteBeta(x, a, b, cf) == Once4(RegularizedIncompleteBetaOf, x, a, b, cf)

\* Most nested calls of regularizedIncompleteBeta followed: from the second
\* swap on x alternates between two values, so a call that swaps MaxSwaps
\* times swaps for ever.
MaxSwaps == 4

\* The symmetry swaps of regularizedIncompleteBeta(x, a, b), the n made so far
\* included: each is a nested call with (1 - x, b, a).
RECURSIVE SymmetrySwaps(_, _, _, _)
SymmetrySwaps(x, a, b, n) ==
    IF n >= MaxSwaps THEN n
    ELSE IF Lt(x, Zero) \/ Gt(x, One) \/ x = Zero \/ x = One THEN n
    ELSE IF Gt(x, Div(Add(a, One), Add(Add(a, b), FromInt(2))))
         THEN SymmetrySwaps(Sub(One, x), b, a, n + 1)
    ELSE n

\* The nested calls of logGamma(x): one for the reflection when x < 0.5.
RECURSIVE LogGammaReflections(_)
LogGammaReflections(x) ==
    IF Lt(x, Fin(5, -1)) THEN 1 + LogGammaReflections(Sub(One, x)) ELSE 0

\* The passes of the loop of Lentz's algorithm, for (m = 1; m <= 200; m++),
\* left by break in the pass converged where |delta - 1| < epsilon first
\* holds (0: in none).
LentzPasses(converged) == IF converged \in 1..200 THEN converged ELSE 200

\* fDistributionPValue(f, df1, df2)
FDistributionPValueOf(f, df1, df2, cf) ==
    IF Le(f, Zero) \/ Le(df1, Zero) \/ Le(df2, Zero) THEN One
    ELSE MaxN(Zero,
              MinN(One,
                   Sub(One,
                       RegularizedIncompleteBeta(
                           Div(Mul(df1, f), Add(Mul(df1, f), df2)),
                           Div(df1, FromInt(2)), Div(df2, FromInt(2)), cf))))

FDistributionPValue(f, df1, df2, cf) == Once4(FDistributionPValueOf, f, df1, df2, cf)

\* tDistributionPValue(t, df)
TDistributionPValueOf(t, df, cf) ==
    IF Le(df, Zero) THEN One
    ELSE RegularizedIncompleteBeta(Div(df, Add(df, Mul(t, t))), Div(df, FromInt(2)),
                                   Fin(5, -1), cf)

TDistributionPValue(t, df, cf) == Once3(TDistributionPValueOf, t, df, cf)

(***************************************************************************)
(* StatisticsUtils: the tests                                              *)
(***************************************************************************)

\* A sample is a number, or an object {value: v}, written <<"obj", m, e>>
\* for v = m * 10^e.
IsObject(v) == v[1] = "obj"

ObjectOf(v) == <<"obj", v[2], v[3]>>

\* v.value || v: the value of an object unless it is 0 or NaN, else v itself.
SampleValue(v) ==
    IF IsObject(v) /\ v[2] # 0 THEN <<"fin", v[2], v[3]>> ELSE v

Group(n, vs) == [name |-> n, values |-> vs]

\* An object among numbers: sums with it are strings and differences NaN, so
\* every mean and sum of squares it enters is NaN.
AsNumber(v) == IF IsObject(v) THEN NaN ELSE v

Numbers(arr) == [i \in 1..Len(arr) |-> AsNumber(arr[i])]

GroupMean(g) == Mean(Numbers(g.values))

\* The sum of integers.
RECURSIVE SumInts(_)
SumInts(s) == IF s = <<>> THEN 0 ELSE SumInts(SubSeq(s, 1, Len(s) - 1)) + s[Len(s)]

\* totalN of oneWayANOVA.
TotalN(groups) == SumInts([i \in 1..Len(groups) |-> Len(groups[i].values)])

\* grandMean of oneWayANOVA.
GrandMean(groups) ==
    Div(SumSeq([i \in 1..Len(groups) |-> SumSeq(Numbers(groups[i].values))]),
        FromInt(TotalN(groups)))

\* ssBetween of oneWayANOVA.
SSBetweenOf(groups, grandMean) ==
    SumSeq([i \in 1..Len(groups) |->
              Mul(FromInt(Len(groups[i].values)),
                  PowN(Sub(GroupMean(groups[i]), grandMean), FromInt(2)))])

SSBetween(groups) == Once2(SSBetweenOf, groups, GrandMean(groups))

\* ssWithin of oneWayANOVA.
SSWithin(groups) ==
    SumSeq([i \in 1..Len(groups) |->
              SumOfSquares(Numbers(groups[i].values), GroupMean(groups[i]))])

\* The result of oneWayANOVA when there is nothing to test.
AnovaNeutral(dfBetween, dfWithin) ==
    [fValue |-> Zero, pValue |-> One, dfBetween |-> dfBetween, dfWithin |-> dfWithin,
     significant |-> FALSE]

\* A result of oneWayANOVA that calls p < 0.5 significant.
AnovaResultLoose(f, pq, df, ms) ==
    [fValue |-> f, pValue |-> pq, dfBetween |-> df[1], dfWithin |-> df[2],
     msBetween |-> ms[1], msWithin |-> ms[2], ssBetween |-> ms[3], ssWithin |-> ms[4],
     significant |-> Lt(pq, Fin(5, -1))]

\* The result of oneWayANOVA from its F and p.
AnovaResultOf(f, pq, df, ms) ==
    [fValue |-> f, pValue |-> pq, dfBetween |-> df[1], dfWithin |-> df[2],
     msBetween |-> ms[1], msWithin |-> ms[2], ssBetween |-> ms[3], ssWithin |-> ms[4],
     significant |-> Lt(pq, Fin(5, -2))]

AnovaFromFOf(f, df, ms, cf) ==
    AnovaResultOf(f, FDistributionPValue(f, df[1], df[2], cf), df, ms)

AnovaFromF(f, df, ms, cf) == Once4(AnovaFromFOf, f, df, ms, cf)

\* fValue = msWithin > 0 ? msBetween / msWithin : 0, and what follows.
AnovaFromMSOf(df, ms, cf) ==
    AnovaFromF(IF Gt(ms[2], Zero) THEN Div(ms[1], ms[2]) ELSE Zero, df, ms, cf)

AnovaFromMS(df, ms, cf) == Once3(AnovaFromMSOf, df, ms, cf)

AnovaFromSSOf(df, ssBetween, ssWithin, cf) ==
    AnovaFromMS(df, <<Div(ssBetween, df[1]), Div(ssWithin, df[2]), ssBetween, ssWithin>>, cf)

AnovaFromSS(df, ssBetween, ssWithin, cf) == Once4(AnovaFromSSOf, df, ssBetween, ssWithin, cf)

\* oneWayANOVA(groups), when it returns.
OneWayANOVAOf(groups, cf) ==
    IF Len(groups) < 2 THEN AnovaNeutral(Zero, Zero)
    ELSE IF TotalN(groups) - Len(groups) <= 0
         THEN AnovaNeutral(FromInt(Len(groups) - 1), FromInt(TotalN(groups) - Len(groups)))
    ELSE AnovaFromSS(<<FromInt(Len(groups) - 1), FromInt(TotalN(groups) - Len(groups))>>,
                     SSBetween(groups), SSWithin(groups), cf)

OneWayANOVA(groups, cf) == Once2(OneWayANOVAOf, groups, cf)

\* oneWayANOVA logs v.toFixed(4) of every value of every group once it has two
\* groups: a value that is no number has no toFixed, and the call throws.
OneWayANOVAThrows(groups) ==
    /\ Len(groups) >= 2
    /\ \E i \in 1..Len(groups) : \E j \in 1..Len(groups[i].values) :
          IsObject(groups[i].values[j])

OneWayANOVAResult(groups, cf) ==
    IF OneWayANOVAThrows(groups) THEN Call("oneWayANOVA", <<groups>>, "throw", Null)
    ELSE Call("oneWayANOVA", <<groups>>, "ok", OneWayANOVA(groups, cf))

\* A property of an object that was never set.
Undefined == <<"undefined", 0, 0>>

\* The options of tTest: { pooledVariance, pooledDf }, {} when neither is set.
Options(pooledVariance, pooledDf) ==
    [pooledVariance |-> pooledVariance, pooledDf |-> pooledDf]

NoOptions == Options(Undefined, Undefined)

\* significance: the four tiers of a p-value; null is written "null".
FourTiers(pValue) ==
    IF Lt(pValue, Fin(1, -4)) THEN "****"
    ELSE IF Lt(pValue, Fin(1, -3)) THEN "***"
    ELSE IF Lt(pValue, Fin(1, -2)) THEN "**"
    ELSE IF Lt(pValue, Fin(5, -2)) THEN "*"
    ELSE "null"

\* The result of tTest when a group has fewer than 2 samples.
TTestNeutral == [tValue |-> Zero, pValue |-> One, df |-> Zero, significant |-> FALSE]

\* The result of tTest from its t and p; g is <<meanDiff, group1.name,
\* group2.name>>.
TTestFromPOf(t, pq, df, g) ==
    [tValue |-> t, pValue |-> pq, df |-> df, significant |-> Lt(pq, Fin(5, -2)),
     significance |-> FourTiers(pq), meanDiff |-> g[1], group1 |-> g[2], group2 |-> g[3]]

TTestFromP(t, pq, df, g) == Once4(TTestFromPOf, t, pq, df, g)

TTestFromTOf(t, df, g, cf) == TTestFromP(t, TDistributionPValue(t, df, cf), df, g)

TTestFromT(t, df, g, cf) == Once4(TTestFromTOf, t, df, g, cf)

\* se = Math.sqrt(v * (1 / n1 + 1 / n2))
StandardErrorOf(v, n1, n2) ==
    SqrtN(Mul(v, Add(Div(One, FromInt(n1)), Div(One, FromInt(n2)))))

StandardError(v, n1, n2) == Once3(StandardErrorOf, v, n1, n2)

\* pooledVar of tTest: ((n1 - 1) * v1 + (n2 - 1) * v2) / df
PooledVarOf(a1, a2) ==
    Div(Add(Mul(FromInt(Len(a1) - 1), Variance(a1)), Mul(FromInt(Len(a2) - 1), Variance(a2))),
        FromInt(Len(a1) + Len(a2) - 2))

PooledVar(a1, a2) == Once2(PooledVarOf, a1, a2)

\* tValue and df of tTest, and what follows; m is <<m1, m2>>.
TTestFromMeansOf(group1, group2, options, cf, m) ==
    IF options.pooledVariance # Undefined /\ options.pooledDf # Undefined
    THEN TTestFromT(Div(AbsN(Sub(m[1], m[2])),
                        StandardError(options.pooledVariance, Len(group1.values),
                                      Len(group2.values))),
                    options.pooledDf, <<Sub(m[1], m[2]), group1.name, group2.name>>, cf)
    ELSE TTestFromT(Div(AbsN(Sub(m[1], m[2])),
                        StandardError(PooledVar(Numbers(group1.values), Numbers(group2.values)),
                                      Len(group1.values), Len(group2.values))),
                    FromInt(Len(group1.values) + Len(group2.values) - 2),
                    <<Sub(m[1], m[2]), group1.name, group2.name>>, cf)

\* tTest without its check of the group sizes.
TTestUnguarded(group1, group2, options, cf) ==
    TTestFromMeansOf(group1, group2, options, cf, <<GroupMean(group1), GroupMean(group2)>>)

\* tTest(group1, group2, options)
TTestOf(group1, group2, options, cf) ==
    IF Len(group1.values) < 2 \/ Len(group2.values) < 2 THEN TTestNeutral
    ELSE TTestFromMeansOf(group1, group2, options, cf,
                          <<GroupMean(group1), GroupMean(group2)>>)

TTest(group1, group2, options, cf) == Once4(TTestOf, group1, group2, options, cf)

\* qTable of getStudentizedRangeCritical in hundredths: the row of k holds
\* the entries for df 5, 10, 15, 20, 30, 60, 120 and inf.
QTable ==
    [k \in 2..10 |->
        CASE k = 2 -> <<364, 315, 301, 295, 289, 283, 280, 277>>
          [] k = 3 -> <<460, 400, 382, 374, 367, 358, 353, 349>>
          [] k = 4 -> <<522, 455, 433, 423, 414, 404, 398, 393>>
          [] k = 5 -> <<567, 494, 470, 459, 449, 438, 431, 426>>
          [] k = 6 -> <<603, 524, 498, 486, 476, 464, 457, 451>>
          [] k = 7 -> <<633, 549, 522, 509, 498, 486, 478, 472>>
          [] k = 8 -> <<658, 570, 541, 528, 516, 504, 496, 489>>
          [] k = 9 -> <<680, 589, 559, 545, 532, 519, 511, 504>>
          [] k = 10 -> <<700, 605, 574, 560, 547, 533, 525, 517>>]

\* The df of the columns of qTable but the last, inf.
QTableDf == <<5, 10, 15, 20, 30, 60, 120>>

\* kClamped = Math.min(Math.max(k, 2), 10)
KClamped(k) == IF k < 2 THEN 2 ELSE IF k > 10 THEN 10 ELSE k

\* The column getStudentizedRangeCritical reads for df: the first whose df
\* is at least df, the last when there is none.
RECURSIVE QColumnFrom(_, _)
QColumnFrom(df, c) ==
    IF c > Len(QTableDf) THEN c
    ELSE IF Le(df, FromInt(QTableDf[c])) THEN c
    ELSE QColumnFrom(df, c + 1)

QColumn(df) == QColumnFrom(df, 1)

\* getStudentizedRangeCritical(k, df, alpha), k an integer.
GetStudentizedRangeCriticalOf(k, df, alpha) == Fin(QTable[KClamped(k)][QColumn(df)], -2)

GetStudentizedRangeCritical(k, df, alpha) == Once3(GetStudentizedRangeCriticalOf, k, df, alpha)

\* approximateTukeyPValue without its floor of 0.0001.
ApproximateTukeyPValueNoFloor(q, k, df) ==
    MinN(One,
         MinN(One,
              Div(Mul(Mul(Mul(FromInt(2), Sub(One, NormalCDF(Div(q, SqrtN(FromInt(2)))))),
                          FromInt(k)),
                      FromInt(k - 1)),
                  FromInt(2))))

\* approximateTukeyPValue(q, k, df)
ApproximateTukeyPValueOf(q, k, df) ==
    MaxN(Fin(1, -4),
         MinN(One,
              MinN(One,
                   Div(Mul(Mul(Mul(FromInt(2), Sub(One, NormalCDF(Div(q, SqrtN(FromInt(2)))))),
                               FromInt(k)),
                           FromInt(k - 1)),
                       FromInt(2)))))

ApproximateTukeyPValue(q, k, df) == Once3(ApproximateTukeyPValueOf, q, k, df)

\* significance of tukeyHSD: three tiers of the p-value.
ThreeTiers(pValue) ==
    IF Lt(pValue, Fin(1, -3)) THEN "***"
    ELSE IF Lt(pValue, Fin(1, -2)) THEN "**"
    ELSE IF Lt(pValue, Fin(5, -2)) THEN "*"
    ELSE "null"

\* A comparison of tukeyHSD whose flag is pValue < 0.05.
TukeyPairResultByP(group1, group2, d, pValue) ==
    [group1 |-> group1.name, group2 |-> group2.name, mean1 |-> GroupMean(group1),
     mean2 |-> GroupMean(group2), meanDiff |-> d[1], hsd |-> d[2], qValue |-> d[3],
     pValue |-> pValue, significant |-> Lt(pValue, Fin(5, -2)),
     significance |-> ThreeTiers(pValue)]

\* The comparison tukeyHSD pushes; d is <<meanDiff, hsd, qValue>>.
TukeyPairResultOf(group1, group2, d, pValue) ==
    [group1 |-> group1.name, group2 |-> group2.name, mean1 |-> GroupMean(group1),
     mean2 |-> GroupMean(group2), meanDiff |-> d[1], hsd |-> d[2], qValue |-> d[3],
     pValue |-> pValue, significant |-> Gt(d[1], d[2]),
     significance |-> ThreeTiers(pValue)]

TukeyPairResult(group1, group2, d, pValue) == Once4(TukeyPairResultOf, group1, group2, d, pValue)

\* qk is <<qCritical, k, dfWithin>>.
TukeyPairFromQOf(group1, group2, d, qk) ==
    TukeyPairResult(group1, group2, d, ApproximateTukeyPValue(d[3], qk[2], qk[3]))

TukeyPairFromQ(group1, group2, d, qk) == Once4(TukeyPairFromQOf, group1, group2, d, qk)

\* meanDiff = Math.abs(mean1 - mean2), hsd = qCritical * se, qValue = meanDiff / se
TukeyPairFromSEOf(group1, group2, se, qk) ==
    TukeyPairFromQ(group1, group2,
                   <<AbsN(Sub(GroupMean(group1), GroupMean(group2))), Mul(qk[1], se),
                     Div(AbsN(Sub(GroupMean(group1), GroupMean(group2))), se)>>, qk)

TukeyPairFromSE(group1, group2, se, qk) == Once4(TukeyPairFromSEOf, group1, group2, se, qk)

\* nHarmonic = (2 * n1 * n2) / (n1 + n2)
NHarmonic(n1, n2) == Div(FromInt(2 * n1 * n2), FromInt(n1 + n2))

\* One pass of the inner loop of tukeyHSD: se = Math.sqrt(msWithin / nHarmonic).
TukeyPairOf(group1, group2, msWithin, qk) ==
    TukeyPairFromSE(group1, group2,
                    SqrtN(Div(msWithin, NHarmonic(Len(group1.values), Len(group2.values)))), qk)

TukeyPair(group1, group2, msWithin, qk) == Once4(TukeyPairOf, group1, group2, msWithin, qk)

\* The pairs <<i, j>> the loops of tukeyHSD visit from <<i, j>> on, i < j <= k.
RECURSIVE TukeyPairs(_, _, _)
TukeyPairs(i, j, k) ==
    IF i >= k THEN <<>>
    ELSE IF j > k THEN TukeyPairs(i + 1, i + 2, k)
    ELSE <<<<i, j>>>> \o TukeyPairs(i, j + 1, k)

\* The loops of tukeyHSD over the pairs they visit.
TukeyLoopOverOf(groups, msWithin, qk, pairs) ==
    [n \in 1..Len(pairs) |-> TukeyPair(groups[pairs[n][1]], groups[pairs[n][2]], msWithin, qk)]

TukeyLoopOver(groups, msWithin, qk, pairs) == Once4(TukeyLoopOverOf, groups, msWithin, qk, pairs)

TukeyLoop(groups, msWithin, qk) ==
    TukeyLoopOver(groups, msWithin, qk, TukeyPairs(1, 2, Len(groups)))

\* tukeyHSD that compares every ordered pair of different groups.
TukeyHSDOrdered(groups, msWithin, dfWithin, alpha) ==
    IF Len(groups) < 2 \/ Le(msWithin, Zero) THEN <<>>
    ELSE TukeyLoop(groups, msWithin,
                   <<GetStudentizedRangeCritical(Len(groups), dfWithin, alpha), Len(groups),
                     dfWithin>>)
         \o TukeyLoop([i \in 1..Len(groups) |-> groups[Len(groups) + 1 - i]], msWithin,
                      <<GetStudentizedRangeCritical(Len(groups), dfWithin, alpha), Len(groups),
                        dfWithin>>)

\* tukeyHSD(groups, msWithin, dfWithin, alpha)
TukeyHSDOf(groups, msWithin, dfWithin, alpha) ==
    IF Len(groups) < 2 \/ Le(msWithin, Zero) THEN <<>>
    ELSE TukeyLoop(groups, msWithin,
                   <<GetStudentizedRangeCritical(Len(groups), dfWithin, alpha), Len(groups),
                     dfWithin>>)

TukeyHSD(groups, msWithin, dfWithin, alpha) == Once4(TukeyHSDOf, groups, msWithin, dfWithin, alpha)

\* groupedData maps a condition name to a map from days to the values of the
\* day: dayData.values of groupedData[cond]?.[day], << >> when there is none.
DayValues(groupedData, cond, day) ==
    IF cond \in DOMAIN groupedData /\ day \in DOMAIN groupedData[cond]
    THEN groupedData[cond][day]
    ELSE <<>>

\* values.map(v => v.value || v)
SampleValues(values) == [i \in 1..Len(values) |-> SampleValue(values[i])]

\* The days of a set in the order of Object.keys: ascending.
RECURSIVE Ascending(_)
Ascending(days) ==
    IF days = {} THEN <<>>
    ELSE <<CHOOSE d \in days : \A e \in days : d <= e>>
         \o Ascending(days \ {CHOOSE d \in days : \A e \in days : d <= e})

\* allDays of calculateGlobalPooledVariance, in the order its Set holds them.
RECURSIVE AllDays(_, _)
AllDays(groupedData, selectedConditions) ==
    IF selectedConditions = <<>> THEN <<>>
    ELSE AllDays(groupedData, SubSeq(selectedConditions, 1, Len(selectedConditions) - 1))
         \o Ascending(
              (IF selectedConditions[Len(selectedConditions)] \in DOMAIN groupedData
               THEN DOMAIN groupedData[selectedConditions[Len(selectedConditions)]]
               ELSE {})
              \ UNION {IF selectedConditions[i] \in DOMAIN groupedData
                       THEN DOMAIN groupedData[selectedConditions[i]]
                       ELSE {} : i \in 1..(Len(selectedConditions) - 1)})

\* The values of the cells the loops of calculateGlobalPooledVariance visit,
\* day by day and condition by condition.
VisitedCells(groupedData, selectedConditions, allDays) ==
    [n \in 1..(Len(allDays) * Len(selectedConditions)) |->
        DayValues(groupedData, selectedConditions[((n - 1) % Len(selectedConditions)) + 1],
                  allDays[((n - 1) \div Len(selectedConditions)) + 1])]

\* The visited cells that enter the pool: dayData.values.length > 1.
HasTwoSamples(values) == Len(values) > 1

\* The visited cells that enter the pool under dayData.values.length > 0.
HasOneSample(values) == Len(values) > 0

\* ss of a pooled cell.
CellSS(values) ==
    SumOfSquares(Numbers(SampleValues(values)), Mean(Numbers(SampleValues(values))))

\* totalDf > 0 ? { pooledVariance: totalSS / totalDf, pooledDf: totalDf } : null
PooledResultOf(totalSS, totalDf) ==
    IF totalDf > 0 THEN Some(Options(Div(totalSS, FromInt(totalDf)), FromInt(totalDf)))
    ELSE None

PooledResult(totalSS, totalDf) == Once2(PooledResultOf, totalSS, totalDf)

\* The pool of the given cells.
PoolOf(cells) ==
    PooledResult(SumSeq([i \in 1..Len(cells) |-> CellSS(cells[i])]),
                 SumInts([i \in 1..Len(cells) |-> Len(cells[i]) - 1]))

Pool(cells) == Once1(PoolOf, cells)

\* calculateGlobalPooledVariance that pools every cell with a sample.
CalculateGlobalPooledVarianceLoose(groupedData, selectedConditions) ==
    Pool(SelectSeq(VisitedCells(groupedData, selectedConditions,
                                AllDays(groupedData, selectedConditions)), HasOneSample))

\* calculateGlobalPooledVariance(groupedData, selectedConditions)
CalculateGlobalPooledVarianceOf(groupedData, selectedConditions) ==
    Pool(SelectSeq(VisitedCells(groupedData, selectedConditions,
                                AllDays(groupedData, selectedConditions)), HasTwoSamples))

CalculateGlobalPooledVariance(groupedData, selectedConditions) ==
    Once2(CalculateGlobalPooledVarianceOf, groupedData, selectedConditions)

\* groups of analyzeDay: the selected conditions with a value on the day, in
\* the order of selectedConditions, their values mapped by v.value || v.
RECURSIVE DayGroups(_, _, _)
DayGroups(groupedData, selectedConditions, day) ==
    IF selectedConditions = <<>> THEN <<>>
    ELSE DayGroups(groupedData, SubSeq(selectedConditions, 1, Len(selectedConditions) - 1), day)
         \o (IF Len(DayValues(groupedData, selectedConditions[Len(selectedConditions)], day)) > 0
             THEN <<Group(selectedConditions[Len(selectedConditions)],
                          SampleValues(DayValues(groupedData,
                                                 selectedConditions[Len(selectedConditions)],
                                                 day)))>>
             ELSE <<>>)

\* What analyzeDay returns.
DayResult(anovaResult, tukeyResults, significantPairs) ==
    [anovaResult |-> anovaResult, tukeyResults |-> tukeyResults,
     significantPairs |-> significantPairs]

\* An entry of significantPairs.
SignificantPair(r) ==
    [group1 |-> r.group1, group2 |-> r.group2, significance |-> r.significance,
     pValue |-> r.pValue]

\* The branch of analyzeDay for 2 groups, from the result of tTest.
DayFromTTestOf(tResult, globalStats) ==
    DayResult(Some([fValue |-> Mul(tResult.tValue, tResult.tValue),
                    pValue |-> tResult.pValue, significant |-> tResult.significant,
                    method |-> IF globalStats # None THEN "Unpaired t-test (Pooled SD)"
                               ELSE "Unpaired t-test",
                    df |-> tResult.df]),
              <<>>,
              IF tResult.significant THEN <<SignificantPair(tResult)>> ELSE <<>>)

DayFromTTest(tResult, globalStats) == Once2(DayFromTTestOf, tResult, globalStats)

\* The tiers analyzeDay writes over those of tukeyHSD.
Retier(r) ==
    IF FourTiers(r.pValue) # "null" THEN [r EXCEPT !.significance = FourTiers(r.pValue)]
    ELSE r

IsSignificant(r) == r.significant

\* tukeyResults.forEach(r => ...) of analyzeDay.
RetierAllOf(tukeyResults) == [i \in 1..Len(tukeyResults) |-> Retier(tukeyResults[i])]

RetierAll(tukeyResults) == Once1(RetierAllOf, tukeyResults)

\* .map(r => ({ group1, group2, significance, pValue }))
SignificantPairsOf(results) == [i \in 1..Len(results) |-> SignificantPair(results[i])]

SignificantPairs(results) == Once1(SignificantPairsOf, results)

\* The end of analyzeDay for 3 or more groups, from the comparisons.
DayFromTukeyOf(anovaResult, tukeyResults) ==
    DayResult(Some(anovaResult), tukeyResults,
              SignificantPairs(SelectSeq(tukeyResults, IsSignificant)))

DayFromTukey(anovaResult, tukeyResults) == Once2(DayFromTukeyOf, anovaResult, tukeyResults)

\* The branch of analyzeDay for 3 or more groups that runs tukeyHSD whatever
\* the ANOVA says.
DayFromAnovaAlways(groups, anovaResult) ==
    DayFromTukey(anovaResult @@ [method |-> "One-way ANOVA"],
                 IF "msWithin" \in DOMAIN anovaResult
                 THEN RetierAll(TukeyHSD(groups, anovaResult.msWithin, anovaResult.dfWithin,
                                         Fin(5, -2)))
                 ELSE <<>>)

\* The branch of analyzeDay for 3 or more groups, from the result of
\* oneWayANOVA.
DayFromAnovaOf(groups, anovaResult) ==
    DayFromTukey(anovaResult @@ [method |-> "One-way ANOVA"],
                 IF anovaResult.significant
                 THEN RetierAll(TukeyHSD(groups, anovaResult.msWithin, anovaResult.dfWithin,
                                         Fin(5, -2)))
                 ELSE <<>>)

DayFromAnova(groups, anovaResult) == Once2(DayFromAnovaOf, groups, anovaResult)

\* analyzeDay from its groups that sends 2 groups to oneWayANOVA as well.
DayFromGroupsAnovaOnly(groups, globalStats, cf) ==
    IF Len(groups) < 2 THEN DayResult(None, <<>>, <<>>)
    ELSE DayFromAnova(groups, OneWayANOVA(groups, cf))

\* analyzeDay from its groups, when it returns.
DayFromGroupsOf(groups, globalStats, cf) ==
    IF Len(groups) < 2 THEN DayResult(None, <<>>, <<>>)
    ELSE IF Len(groups) = 2
         THEN DayFromTTest(TTest(groups[1], groups[2],
                                 IF globalStats # None THEN globalStats[1] ELSE NoOptions, cf),
                           globalStats)
    ELSE DayFromAnova(groups, OneWayANOVA(groups, cf))

DayFromGroups(groups, globalStats, cf) == Once3(DayFromGroupsOf, groups, globalStats, cf)

\* analyzeDay(groupedData, selectedConditions, day, globalStats): with 3 or
\* more groups the throw of oneWayANOVA is its own.
AnalyzeDayOf(groups, globalStats, cf) ==
    IF Len(groups) > 2 /\ OneWayANOVAThrows(groups) THEN <<"throw", Null>>
    ELSE <<"ok", DayFromGroups(groups, globalStats, cf)>>

AnalyzeDay(groupedData, selectedConditions, day, globalStats, cf) ==
    Once3(AnalyzeDayOf, DayGroups(groupedData, selectedConditions, day), globalStats, cf)

(***************************************************************************)
(* StatisticsUtils: the calls                                              *)
(***************************************************************************)

\* Most groups handed to a test.
MaxGroups == 3

\* The groups handed to the tests.
GroupA == Group("A", <<One, FromInt(2)>>)

GroupB == Group("B", <<FromInt(3), FromInt(5)>>)

GroupC == Group("C", <<FromInt(2), FromInt(2), FromInt(5)>>)

GroupFlat == Group("F", <<FromInt(2), FromInt(2)>>)

GroupSingle == Group("S", <<One>>)

GroupEmpty == Group("E", <<>>)

GroupObject == Group("O", <<ObjectOf(Zero), FromInt(4)>>)

StatGroups == {GroupA, GroupB, GroupC, GroupFlat, GroupSingle, GroupEmpty, GroupObject}

\* The groups handed to oneWayANOVA.
AnovaGroups == {GroupA, GroupB, GroupSingle, GroupEmpty, GroupObject}

GroupLists == UNION {[1..n -> AnovaGroups] : n \in 0..MaxGroups}

\* The values of front * h / a met: p-values of every tier, and their
\* complements.
CFResults ==
    {Zero, Fin(5, -4), Fin(5, -3), Fin(2, -2), Fin(3, -1), Fin(98, -2)}

\* A caller has entered a method of StatisticsUtils with its arguments.
AtCall(call) ==
    /\ pc = "call"
    /\ caller = ""
    /\ data = <<>>
    /\ params = NoParams
    /\ lambda = Zero
    /\ prevSSR = Zero
    /\ iter = 0
    /\ maxIterations = 0
    /\ tolerance = Zero
    /\ exit = ""
    /\ heap = [o \in {} |-> NoParams]
    /\ fitterParams = 0
    /\ fitterRSquared = Null
    /\ held = 0
    /\ lastFit = <<>>
    /\ last = call
    /\ Constructed

\* The method returns to its caller.
Return(op, result) ==
    /\ pc = "call"
    /\ last.op = op
    /\ last.status = "running"
    /\ pc' = "idle"
    /\ last' = result
    /\ UNCHANGED <<loopVars, fitterVars, plateVars>>

\* The options handed to tTest: none, a pooled variance with its degrees of
\* freedom, a pooled variance of 0, one of the two alone, a negative variance.
OptionChoices ==
    {NoOptions, Options(Fin(25, -2), FromInt(4)), Options(Zero, FromInt(4)),
     Options(Fin(25, -2), Undefined), Options(FromInt(-1), FromInt(4))}

\* The groups handed to tukeyHSD.
TukeyGroups == {GroupA, GroupB, GroupC, GroupSingle, GroupEmpty}

TukeyGroupLists == UNION {[1..n -> TukeyGroups] : n \in 0..MaxGroups}

\* msWithin and dfWithin handed to tukeyHSD.
MsWithinChoices == {Zero, FromInt(-1), NaN, Fin(1, -2), Fin(213, -2)}

DfWithinChoices == {FromInt(4)}

\* alpha of tukeyHSD and getStudentizedRangeCritical.
AlphaChoices == {Fin(5, -2), Fin(1, -2)}

\* k and df handed to getStudentizedRangeCritical.
KChoices == {0, 1, 2, 3, 5, 10, 11, 12}

DfChoices ==
    {FromInt(n) : n \in {0, 1, 4, 5, 6, 7, 8, 10, 11, 14, 15, 16, 21, 30, 44, 61, 100, 120,
                         121, 1000}}
      \cup {Fin(55, -1), PosInf, NaN}

\* The names of the conditions of groupedData.
ConditionNames == <<"c1", "c2", "c3", "c4", "c5">>

\* What groupedData holds for a condition: the values of days 1 and 2, as
\* numbers or as sample objects (one with value 0); a day may be missing.
ConditionData ==
    {(1 :> <<One, FromInt(2)>> @@ 2 :> <<FromInt(3), FromInt(5)>>),
     (1 :> <<One>>),
     (1 :> <<FromInt(20), FromInt(21), FromInt(22)>> @@ 2 :> <<>>),
     (1 :> <<ObjectOf(FromInt(3)), ObjectOf(FromInt(5))>> @@ 2 :> <<ObjectOf(FromInt(7))>>),
     (1 :> <<ObjectOf(Zero), ObjectOf(FromInt(4))>> @@ 2 :> <<One, FromInt(2)>>)}

\* groupedData of up to MaxGroups conditions.
GroupedDataChoices ==
    UNION {{[c \in {ConditionNames[i] : i \in 1..n} |->
               f[CHOOSE i \in 1..n : ConditionNames[i] = c]] : f \in [1..n -> ConditionData]} :
           n \in 0..MaxGroups}

\* selectedConditions: every condition of groupedData and one it does not
\* hold, or all but the first in reverse order.
SelectedChoices(groupedData) ==
    {[i \in 1..(Cardinality(DOMAIN groupedData) + 1) |->
        IF i <= Cardinality(DOMAIN groupedData) THEN ConditionNames[i] ELSE "missing"],
     [i \in 1..(Cardinality(DOMAIN groupedData) - 1) |->
        ConditionNames[Cardinality(DOMAIN groupedData) + 1 - i]]}

\* globalStats of analyzeDay: null, or pooled statistics.
GlobalStatsChoices == {None, Some(Options(Fin(25, -2), FromInt(4)))}

\* Arguments of regularizedIncompleteBeta called by itself.
BetaX == {Zero, Fin(1, -1), Fin(17, -2), Fin(5, -1), Fin(83, -2), One, Fin(15, -1), NaN}

BetaAB ==
    {<<Fin(125, -2), FromInt(10)>>, <<FromInt(10), Fin(125, -2)>>, <<Fin(5, -1), One>>,
     <<One, Fin(5, -1)>>, <<Fin(25, -2), Fin(25, -2)>>, <<FromInt(2), FromInt(3)>>}

\* The pass in which the continued fraction converges; 0: it does not.
ConvergedChoices == {0, 1, 17, 200}

\* regularizedIncompleteBeta(x, a, b) called by itself: it returns, or its
\* nested calls exhaust the stack (RangeError).  args[4] is the pass in which
\* the continued fraction of the call converges.
CallRegularizedIncompleteBeta(cf) ==
    /\ last.op = "regularizedIncompleteBeta"
    /\ Return("regularizedIncompleteBeta",
              IF SymmetrySwaps(last.args[1], last.args[2], last.args[3], 0) >= MaxSwaps
              THEN Call("regularizedIncompleteBeta", last.args, "throw", Null)
              ELSE Call("regularizedIncompleteBeta", last.args, "ok",
                        RegularizedIncompleteBeta(last.args[1], last.args[2], last.args[3],
                                                  cf)))

CallOneWayANOVA(cf) ==
    /\ last.op = "oneWayANOVA"
    /\ Return("oneWayANOVA", OneWayANOVAResult(last.args[1], cf))

CallTTest(cf) ==
    /\ last.op = "tTest"
    /\ Return("tTest", Call("tTest", last.args, "ok",
                            TTest(last.args[1], last.args[2], last.args[3], cf)))

CallTukeyHSD ==
    /\ last.op = "tukeyHSD"
    /\ Return("tukeyHSD", Call("tukeyHSD", last.args, "ok",
                               TukeyHSD(last.args[1], last.args[2], last.args[3],
                                        last.args[4])))

CallGetStudentizedRangeCritical ==
    /\ last.op = "getStudentizedRangeCritical"
    /\ Return("getStudentizedRangeCritical",
              Call("getStudentizedRangeCritical", last.args, "ok",
                   GetStudentizedRangeCritical(last.args[1], last.args[2], last.args[3])))

CallCalculateGlobalPooledVariance ==
    /\ last.op = "calculateGlobalPooledVariance"
    /\ Return("calculateGlobalPooledVariance",
              Call("calculateGlobalPooledVariance", last.args, "ok",
                   CalculateGlobalPooledVariance(last.args[1], last.args[2])))

AnalyzeDayCallOf(args, r) == Call("analyzeDay", args, r[1], r[2])

AnalyzeDayCall(args, r) == Once2(AnalyzeDayCallOf, args, r)

CallAnalyzeDay(cf) ==
    /\ last.op = "analyzeDay"
    /\ Return("analyzeDay",
              AnalyzeDayCall(last.args,
                             AnalyzeDay(last.args[1], last.args[2], last.args[3],
                                        last.args[4], cf)))

InitStats ==
    \/ \E groups \in GroupLists : AtCall(Call("oneWayANOVA", <<groups>>, "running", Null))
    \/ \E group1 \in StatGroups, group2 \in StatGroups, options \in OptionChoices :
          AtCall(Call("tTest", <<group1, group2, options>>, "running", Null))
    \/ \E groups \in TukeyGroupLists, msWithin \in MsWithinChoices,
          dfWithin \in DfWithinChoices :
          AtCall(Call("tukeyHSD", <<groups, msWithin, dfWithin, Fin(5, -2)>>, "running", Null))
    \/ \E k \in KChoices, df \in DfChoices, alpha \in AlphaChoices :
          AtCall(Call("getStudentizedRangeCritical", <<k, df, alpha>>, "running", Null))
    \/ \E groupedData \in GroupedDataChoices :
          \E selectedConditions \in SelectedChoices(groupedData) :
              AtCall(Call("calculateGlobalPooledVariance",
                          <<groupedData, selectedConditions>>, "running", Null))
    \/ \E groupedData \in GroupedDataChoices, globalStats \in GlobalStatsChoices :
          \E selectedConditions \in SelectedChoices(groupedData) :
              AtCall(Call("analyzeDay", <<groupedData, selectedConditions, 1, globalStats>>,
                          "running", Null))
    \/ \E x \in BetaX, ab \in BetaAB, converged \in ConvergedChoices :
          AtCall(Call("regularizedIncompleteBeta", <<x, ab[1], ab[2], converged>>,
                      "running", Null))

NextStats ==
    \/ \E cf \in CFResults : CallOneWayANOVA(cf)
    \/ \E cf \in CFResults : CallTTest(cf)
    \/ CallTukeyHSD
    \/ CallGetStudentizedRangeCritical
    \/ CallCalculateGlobalPooledVariance
    \/ \E cf \in CFResults : CallAnalyzeDay(cf)
    \/ \E cf \in CFResults : CallRegularizedIncompleteBeta(cf)

SpecStats == InitStats /\ [][NextStats]_vars

(***************************************************************************)
(* The claims                                                              *)
(***************************************************************************)

\* A point the precondition of fit counts: finite x >= 0 and finite y.
FinitePoint(p) == IsFiniteNum(p.x) /\ Ge(p.x, Zero) /\ IsFiniteNum(p.y)

\* C1: fit(data) throws whenever fewer than 4 points with finite,
\* non-negative x and finite y are in data.
C1_ThrowsBelowFourFinitePoints ==
    (last.op = "fit" /\ Len(SelectSeq(last.args[1], FinitePoint)) < 4)
        => last.status = "throw"

WithinBounds(p) ==
    Ge(p.A, Zero) /\ Ge(p.B, Zero) /\ Ge(p.D, Zero) /\ Ge(p.C, Fin(1, -12))

\* C2: the parameters optimize holds at the start of every iteration and at
\* its return, and the parameters fit returns, have A >= 0, B >= 0, D >= 0
\* and C >= 1e-12.
C2_ParamsWithinBounds ==
    /\ pc \in {"opt", "ret"} => WithinBounds(params)
    /\ (last.op = "fit" /\ last.status = "ok") => WithinBounds(heap[last.ret.params])

\* fit has returned for the dataset whose median x is 0, with C at its floor.
C2_FitOfZeroMedianReturned ==
    /\ last.op = "fit"
    /\ last.status = "ok"
    /\ last.args[1] = ZeroX
    /\ heap[last.ret.params].C = Fin(1, -12)

\* C3: optimize makes at most maxIterations passes, each pass that stays in
\* the loop counts one, the loop is left on convergence, on lambda > 1e15 or
\* on the budget, and every run returns its parameters.
C3_OptimizeTerminates ==
    /\ [](pc \in {"opt", "ret"} => iter <= maxIterations)
    /\ [](pc = "ret" =>
            /\ exit \in {"converged", "lambda", "budget"}
            /\ exit = "budget" => iter = maxIterations
            /\ exit = "lambda" => LambdaExceeded(lambda))
    /\ [][(pc = "opt" /\ pc' = "opt") => iter' = iter + 1]_vars
    /\ ((pc = "opt") ~> (pc = "idle" /\ last.status = "ok"))

\* optimize has used up a budget of 2 without converging.
C3_BudgetExhausted ==
    pc = "ret" /\ exit = "budget" /\ maxIterations = 2 /\ iter = 2

\* C4: fourPL, inverse4PL, calculateConcentration, generateCurvePoints and a
\* fit that throws leave this.params (the reference and the fields of the
\* object) and this.rSquared as they were.
C4_StoredStateKept ==
    [][(\/ last'.op \in {"fourPL", "inverse4PL", "calculateConcentration",
                         "generateCurvePoints"}
        \/ (last'.op = "fit" /\ last'.status = "throw"))
       => (/\ fitterParams' = fitterParams
           /\ StoredParams' = StoredParams
           /\ fitterRSquared' = fitterRSquared)]_vars

\* A fit has thrown on a fitter that holds the result of an earlier fit.
C4_ThrowAfterFit ==
    last.op = "fit" /\ last.status = "throw" /\ fitterParams # 0

\* C5: without params, calculateConcentration returns null and
\* generateCurvePoints throws before any successful fit, and after one both
\* compute from the parameters the most recent successful fit found; with
\* params, both compute from those.
C5_UsesMostRecentFit ==
    /\ last.op = "calculateConcentration" =>
          /\ last.status = "ok"
          /\ last.ret =
                IF last.args[2] # None THEN Inverse4PL(last.args[1], last.args[2][1])
                ELSE IF lastFit = None THEN Null
                ELSE Inverse4PL(last.args[1], lastFit[1])
    /\ last.op = "generateCurvePoints" =>
          IF last.args[4] = None /\ lastFit = None THEN last.status = "throw"
          ELSE /\ last.status = "ok"
               /\ last.ret =
                     CurvePoints(last.args[1], last.args[2], last.args[3],
                                 IF last.args[4] # None THEN last.args[4][1]
                                 ELSE lastFit[1])

\* C6: an assignment to a field of the params object of a FitResult leaves
\* the parameters the fitter has stored as they were.
C6_ResultNotShared ==
    [][last'.op = "mutate" => StoredParams' = StoredParams]_vars

\* y <= min(A, D) or y >= max(A, D)
OutOfRange(y, p) == Le(y, MinN(p.A, p.D)) \/ Ge(y, MaxN(p.A, p.D))

\* C7: inverse4PL(y, params) returns null for every y <= min(A, D) and
\* every y >= max(A, D): so for y = A, for y = D, and for every y when A = D.
C7_OutOfRangeIsNull ==
    (last.op = "inverse4PL" /\ OutOfRange(last.args[1], last.args[2]))
        => last.ret = Null

\* inverse4PL was called with y = D on a curve with A # D.
C7_CalledAtAsymptote ==
    /\ last.op = "inverse4PL"
    /\ last.args[1] = last.args[2].D
    /\ last.args[2].A # last.args[2].D
    /\ last.ret = Null

\* C8: for A, B, D >= 0, C > 0, A # D (B = 0 included) and y strictly
\* between A and D, inverse4PL returns a finite number, never NaN or an
\* Infinity.
C8_InverseIsFinite ==
    (/\ last.op = "inverse4PL"
     /\ Ge(last.args[2].A, Zero) /\ Ge(last.args[2].B, Zero)
     /\ Ge(last.args[2].D, Zero) /\ Gt(last.args[2].C, Zero)
     /\ last.args[2].A # last.args[2].D
     /\ ~OutOfRange(last.args[1], last.args[2]))
        => IsFiniteNum(last.ret)

\* generateCurvePoints has returned for 0 < minX < maxX and numPoints >= 2.
CurveReturned ==
    /\ last.op = "generateCurvePoints"
    /\ last.status = "ok"
    /\ Lt(Zero, last.args[1])
    /\ Lt(last.args[1], last.args[2])
    /\ last.args[3] >= 2

\* The points are as many as asked and each y is fourPL of its x.
CurveOnModel(pts, n, p) ==
    Len(pts) = n /\ \A i \in 1..n : pts[i].y = FourPL(pts[i].x, p)

\* x is within one part in a hundred of target.
Near(x, target) == Le(AbsN(Sub(x, target)), Mul(target, Fin(1, -2)))

\* C9 as stated: for 0 < minX < maxX and n >= 2 the n points have strictly
\* increasing x, the first x is minX, the last x is maxX, and each y is
\* fourPL(x, params).
C9_ExactEndpoints ==
    CurveReturned =>
        /\ CurveOnModel(last.ret, last.args[3], last.args[4][1])
        /\ \A i \in 1..(last.args[3] - 1) : Lt(last.ret[i].x, last.ret[i + 1].x)
        /\ last.ret[1].x = last.args[1]
        /\ last.ret[last.args[3]].x = last.args[2]

\* C9: for 0 < minX < maxX and n >= 2 the n points have x that never
\* decreases, the first x is minX and the last x is maxX up to the rounding
\* of log10 and pow, the last x is above the first, and each y is
\* fourPL(x, params).
C9_CurvePointsLogSpaced ==
    CurveReturned =>
        /\ CurveOnModel(last.ret, last.args[3], last.args[4][1])
        /\ \A i \in 1..(last.args[3] - 1) : Le(last.ret[i].x, last.ret[i + 1].x)
        /\ Near(last.ret[1].x, last.args[1])
        /\ Near(last.ret[last.args[3]].x, last.args[2])

\* Three points were asked from 5 to 50 and the first x is not 5.
C9_RoundedEndpoint ==
    /\ CurveReturned
    /\ last.args[1] = FromInt(5)
    /\ last.args[2] = FromInt(50)
    /\ last.args[3] = 3
    /\ last.ret[1].x # last.args[1]

\* C10: generateCurvePoints with minX <= 0 returns no point whose x is NaN
\* or an Infinity.
C10_NonPositiveMinXGuarded ==
    (last.op = "generateCurvePoints" /\ last.status = "ok" /\ Le(last.args[1], Zero))
        => \A i \in 1..Len(last.ret) : IsFiniteNum(last.ret[i].x)

\* Every value of every group is a number.
AllNumbers(groups) ==
    \A i \in 1..Len(groups) : \A j \in 1..Len(groups[i].values) :
        ~IsObject(groups[i].values[j])

\* C11: on groups of numbers oneWayANOVA returns; with fewer than 2 groups
\* or N - k <= 0 the result has fValue = 0, pValue = 1 and significant =
\* false; otherwise dfBetween = k - 1, dfWithin = N - k and significant is
\* true exactly when pValue < 0.05.
C11_AnovaGuards ==
    (last.op = "oneWayANOVA" /\ pc = "idle" /\ AllNumbers(last.args[1])) =>
        /\ last.status = "ok"
        /\ IF Len(last.args[1]) < 2 \/ TotalN(last.args[1]) - Len(last.args[1]) <= 0
           THEN /\ last.ret.fValue = Zero
                /\ last.ret.pValue = One
                /\ last.ret.significant = FALSE
           ELSE /\ last.ret.dfBetween = FromInt(Len(last.args[1]) - 1)
                /\ last.ret.dfWithin = FromInt(TotalN(last.args[1]) - Len(last.args[1]))
                /\ last.ret.significant = Lt(last.ret.pValue, Fin(5, -2))

\* oneWayANOVA has returned the neutral result for three groups of one
\* sample each.
C11_SingleSampleGroups ==
    /\ pc = "idle"
    /\ last.op = "oneWayANOVA"
    /\ last.status = "ok"
    /\ last.args[1] = <<GroupSingle, GroupSingle, GroupSingle>>
    /\ last.ret.pValue = One

\* Every value of the group is a finite number and there are at least 2.
FiniteGroup(group) ==
    /\ Len(group.values) >= 2
    /\ \A j \in 1..Len(group.values) : IsFiniteNum(group.values[j])

\* No pooled statistics, or a pooled variance >= 0 with pooledDf > 0.
SoundOptions(options) ==
    \/ options = NoOptions
    \/ /\ IsFiniteNum(options.pooledVariance) /\ Ge(options.pooledVariance, Zero)
       /\ IsFiniteNum(options.pooledDf) /\ Gt(options.pooledDf, Zero)

\* C12: for two groups of at least 2 finite numbers each, tTest returns a
\* pValue that is no NaN and lies in [0, 1], and when the standard error is
\* 0 its verdict is not significant.
C12_TTestPValueInUnitInterval ==
    (/\ pc = "idle"
     /\ last.op = "tTest"
     /\ FiniteGroup(last.args[1])
     /\ FiniteGroup(last.args[2])
     /\ SoundOptions(last.args[3])) =>
        /\ last.status = "ok"
        /\ ~IsNaN(last.ret.pValue)
        /\ Le(Zero, last.ret.pValue)
        /\ Le(last.ret.pValue, One)
        /\ (IsNaN(last.ret.tValue) \/ IsInf(last.ret.tValue)) => ~last.ret.significant

\* C13: when either group has fewer than 2 samples tTest returns tValue = 0,
\* pValue = 1 and significant = false, whatever the options.
C13_TTestNeedsTwoSamples ==
    (/\ pc = "idle"
     /\ last.op = "tTest"
     /\ (Len(last.args[1].values) < 2 \/ Len(last.args[2].values) < 2)) =>
        /\ last.status = "ok"
        /\ last.ret.tValue = Zero
        /\ last.ret.pValue = One
        /\ last.ret.significant = FALSE

\* tTest has returned for a group of one sample against a group of two, with
\* pooled statistics in the options.
C13_SingleSampleWithPooledStats ==
    /\ pc = "idle"
    /\ last.op = "tTest"
    /\ last.args = <<GroupSingle, GroupB, Options(Fin(25, -2), FromInt(4))>>
    /\ last.ret.pValue = One

\* C16: tukeyHSD returns no result when there are fewer than 2 groups or
\* msWithin <= 0, and otherwise exactly k(k-1)/2 results, the pairs of groups
\* at positions i < j, each once.
C16_TukeyPairs ==
    (pc = "idle" /\ last.op = "tukeyHSD") =>
        /\ last.status = "ok"
        /\ IF Len(last.args[1]) < 2 \/ Le(last.args[2], Zero)
           THEN last.ret = <<>>
           ELSE /\ 2 * Len(last.ret) = Len(last.args[1]) * (Len(last.args[1]) - 1)
                /\ {<<last.ret[n].group1, last.ret[n].group2>> : n \in 1..Len(last.ret)}
                      = {<<last.args[1][ij[1]].name, last.args[1][ij[2]].name>> :
                            ij \in {p \in (1..Len(last.args[1])) \X (1..Len(last.args[1])) :
                                       p[1] < p[2]}}

\* tukeyHSD has returned the three comparisons of three different groups.
C16_ThreeGroupsCompared ==
    /\ pc = "idle"
    /\ last.op = "tukeyHSD"
    /\ last.args[1] = <<GroupA, GroupB, GroupC>>
    /\ Len(last.ret) = 3
    /\ {<<last.ret[n].group1, last.ret[n].group2>> : n \in 1..3}
          = {<<"A", "B">>, <<"A", "C">>, <<"B", "C">>}

\* The columns of qTable whose df is nearest to df; the last column, inf,
\* beyond 120.
NearestColumns(df) ==
    IF Gt(df, FromInt(120)) THEN {Len(QTableDf) + 1}
    ELSE {c \in 1..Len(QTableDf) :
            \A d \in 1..Len(QTableDf) :
                Le(AbsN(Sub(df, FromInt(QTableDf[c]))), AbsN(Sub(df, FromInt(QTableDf[d]))))}

\* C17: getStudentizedRangeCritical returns the entry of qTable in the row of
\* k clamped to 2..10 and the column whose df is nearest to df.
C17_NearestBucket ==
    (pc = "idle" /\ last.op = "getStudentizedRangeCritical" /\ ~IsNaN(last.args[2])) =>
        \E c \in NearestColumns(last.args[2]) :
            last.ret = Fin(QTable[IF last.args[1] < 2 THEN 2
                                  ELSE IF last.args[1] > 10 THEN 10
                                  ELSE last.args[1]][c], -2)

\* analyzeDay has returned to its caller.
DayReturned == pc = "idle" /\ last.op = "analyzeDay" /\ last.status = "ok"

\* The selected conditions with at least one value on the day of the call.
Present ==
    {i \in 1..Len(last.args[2]) :
        /\ last.args[2][i] \in DOMAIN last.args[1]
        /\ last.args[3] \in DOMAIN last.args[1][last.args[2][i]]
        /\ Len(last.args[1][last.args[2][i]][last.args[3]]) > 0}

\* The result is that of the t-test of the two groups present, in the shape
\* of an ANOVA result.
WrapsTTest(t) ==
    /\ last.ret.anovaResult[1].fValue = Mul(t.tValue, t.tValue)
    /\ last.ret.anovaResult[1].pValue = t.pValue
    /\ last.ret.anovaResult[1].significant = t.significant
    /\ last.ret.anovaResult[1].df = t.df

\* C14: analyzeDay with fewer than 2 groups present returns anovaResult =
\* null and empty tukeyResults and significantPairs; with exactly 2 it returns
\* the t-test's result as fValue = tValue^2, pValue and significant, with
\* method 'Unpaired t-test (Pooled SD)' when globalStats is given and
\* 'Unpaired t-test' otherwise; with 3 or more it returns the one-way ANOVA
\* with method 'One-way ANOVA'.
C14_DayDispatch ==
    DayReturned =>
        /\ Cardinality(Present) < 2 =>
              /\ last.ret.anovaResult = None
              /\ last.ret.tukeyResults = <<>>
              /\ last.ret.significantPairs = <<>>
        /\ Cardinality(Present) = 2 =>
              /\ last.ret.anovaResult # None
              /\ last.ret.anovaResult[1].method =
                    (IF last.args[4] # None THEN "Unpaired t-test (Pooled SD)"
                     ELSE "Unpaired t-test")
              /\ last.ret.tukeyResults = <<>>
              /\ \E cf \in CFResults :
                    WrapsTTest(TTest(DayGroups(last.args[1], last.args[2], last.args[3])[1],
                                     DayGroups(last.args[1], last.args[2], last.args[3])[2],
                                     IF last.args[4] # None THEN last.args[4][1] ELSE NoOptions,
                                     cf))
        /\ Cardinality(Present) > 2 =>
              /\ last.ret.anovaResult # None
              /\ last.ret.anovaResult[1].method = "One-way ANOVA"
              /\ \E cf \in CFResults :
                    last.ret.anovaResult[1] =
                        OneWayANOVA(DayGroups(last.args[1], last.args[2], last.args[3]), cf)
                          @@ [method |-> "One-way ANOVA"]

\* analyzeDay has returned the t-test of two groups with pooled statistics.
C14_TwoGroupsPooled ==
    /\ DayReturned
    /\ Cardinality(Present) = 2
    /\ last.args[4] # None
    /\ last.ret.anovaResult[1].method = "Unpaired t-test (Pooled SD)"
    /\ last.ret.anovaResult[1].significant

\* C15: in a result of analyzeDay tukeyResults is non-empty only with 3 or
\* more groups present and a significant ANOVA; significantPairs holds
\* exactly the comparisons of tukeyResults whose significant flag is true,
\* for 2 groups the one pair exactly when the t-test is significant; without
\* a significant overall test significantPairs is empty.
C15_TukeyAfterSignificantAnova ==
    DayReturned =>
        /\ last.ret.tukeyResults # <<>> =>
              /\ Cardinality(Present) >= 3
              /\ last.ret.anovaResult[1].significant
        /\ Cardinality(Present) >= 3 =>
              /\ Len(last.ret.significantPairs)
                    = Cardinality({n \in 1..Len(last.ret.tukeyResults) :
                                      last.ret.tukeyResults[n].significant})
              /\ \A n \in 1..Len(last.ret.tukeyResults) :
                    last.ret.tukeyResults[n].significant
                        <=> \E m \in 1..Len(last.ret.significantPairs) :
                               /\ last.ret.significantPairs[m].group1
                                     = last.ret.tukeyResults[n].group1
                               /\ last.ret.significantPairs[m].group2
                                     = last.ret.tukeyResults[n].group2
                               /\ last.ret.significantPairs[m].pValue
                                     = last.ret.tukeyResults[n].pValue
        /\ Cardinality(Present) = 2 =>
              IF last.ret.anovaResult[1].significant
              THEN /\ Len(last.ret.significantPairs) = 1
                   /\ last.ret.significantPairs[1].group1
                         = DayGroups(last.args[1], last.args[2], last.args[3])[1].name
                   /\ last.ret.significantPairs[1].group2
                         = DayGroups(last.args[1], last.args[2], last.args[3])[2].name
              ELSE last.ret.significantPairs = <<>>
        /\ (last.ret.anovaResult = None \/ ~last.ret.anovaResult[1].significant) =>
              last.ret.significantPairs = <<>>

\* analyzeDay has returned three comparisons after a significant ANOVA, some
\* of them significant and some not.
C15_SomePairsSignificant ==
    /\ DayReturned
    /\ last.ret.anovaResult # None
    /\ last.ret.anovaResult[1].significant
    /\ Len(last.ret.tukeyResults) = 3
    /\ Len(last.ret.significantPairs) \in {1, 2}

\* The comparisons of the call that has returned: the result of tukeyHSD, or
\* tukeyResults of analyzeDay.
Comparisons ==
    IF pc = "idle" /\ last.op = "tukeyHSD" THEN last.ret
    ELSE IF DayReturned THEN last.ret.tukeyResults
    ELSE <<>>

\* C18: every comparison of tukeyHSD carries the tier of its pValue in the
\* four-level scheme: '****' below 0.0001, '***' below 0.001, '**' below
\* 0.01, '*' below 0.05, none otherwise.
C18_TukeyTiers ==
    \A n \in 1..Len(Comparisons) :
        Comparisons[n].significance =
            (IF Lt(Comparisons[n].pValue, Fin(1, -4)) THEN "****"
             ELSE IF Lt(Comparisons[n].pValue, Fin(1, -3)) THEN "***"
             ELSE IF Lt(Comparisons[n].pValue, Fin(1, -2)) THEN "**"
             ELSE IF Lt(Comparisons[n].pValue, Fin(5, -2)) THEN "*"
             ELSE "null")

\* tukeyHSD has returned a comparison whose pValue is the least it gives,
\* 0.0001.
C18_LeastPValue ==
    /\ pc = "idle"
    /\ last.op = "tukeyHSD"
    /\ \E n \in 1..Len(last.ret) :
          last.ret[n].pValue = Fin(1, -4) /\ last.ret[n].significance = "***"

NumericValue(v) == IF IsObject(v) THEN <<"fin", v[2], v[3]>> ELSE v

\* The (condition, day) cells of the selected conditions of the call with at
\* least 2 samples.
CellsOfTwoSamples ==
    {cd \in {last.args[2][i] : i \in 1..Len(last.args[2])} \X {1, 2} :
        /\ cd[1] \in DOMAIN last.args[1]
        /\ cd[2] \in DOMAIN last.args[1][cd[1]]
        /\ Len(last.args[1][cd[1]][cd[2]]) >= 2}

\* The sum of squares of the samples of a cell about their mean.
WithinCellSS(values) ==
    SumOfSquares([i \in 1..Len(values) |-> NumericValue(values[i])],
                 Mean([i \in 1..Len(values) |-> NumericValue(values[i])]))

\* The sums of n - 1 and of the within-cell sums of squares over cells.
RECURSIVE SumOfDf(_)
SumOfDf(cells) ==
    IF cells = {} THEN 0
    ELSE (Len(last.args[1][(CHOOSE cd \in cells : TRUE)[1]][(CHOOSE cd \in cells : TRUE)[2]]) - 1)
         + SumOfDf(cells \ {CHOOSE cd \in cells : TRUE})

RECURSIVE SumOfSS(_)
SumOfSS(cells) ==
    IF cells = {} THEN Zero
    ELSE Add(WithinCellSS(last.args[1][(CHOOSE cd \in cells : TRUE)[1]]
                                      [(CHOOSE cd \in cells : TRUE)[2]]),
             SumOfSS(cells \ {CHOOSE cd \in cells : TRUE}))

\* C20: calculateGlobalPooledVariance returns null when no cell of a selected
\* condition has 2 or more samples, and otherwise pooledDf = the sum of n - 1
\* and pooledVariance = the summed within-cell sum of squares / pooledDf over
\* exactly those cells.
C20_PoolsCellsOfTwoSamples ==
    (pc = "idle" /\ last.op = "calculateGlobalPooledVariance") =>
        IF CellsOfTwoSamples = {} THEN last.ret = None
        ELSE /\ last.ret # None
             /\ last.ret[1].pooledDf = FromInt(SumOfDf(CellsOfTwoSamples))
             /\ last.ret[1].pooledVariance
                   = Div(SumOfSS(CellsOfTwoSamples), FromInt(SumOfDf(CellsOfTwoSamples)))

(***************************************************************************)
(* optimize: the steps of the loop                                         *)
(***************************************************************************)

\* The step from this state to the next is the pass of the loop with the
\* solution delta of the normal equations.
PassWith(delta) ==
    /\ pc = "opt"
    /\ LoopContinues(iter, maxIterations)
    /\ TakeStep(IterationResult(data, params, lambda, prevSSR, tolerance, delta))

\* C21: in every iteration whose linear solve succeeds the candidate is
\* adopted, and lambda becomes max(1e-10, lambda / 10), exactly when its SSR
\* is strictly less than the SSR of the current parameters (the bounded
\* initial estimate in the first iteration); otherwise the parameters are
\* kept and lambda is multiplied by 10.
C21_AdoptIffStrictlyLower ==
    [][\A delta \in SolveResults :
          (~StepFailed(delta) /\ PassWith(delta)) =>
             IF Lt(CalculateSSR(data, Candidate(params, delta)), CalculateSSR(data, params))
             THEN /\ params' = Candidate(params, delta)
                  /\ lambda' = MaxN(Fin(1, -10), Div(lambda, Ten))
             ELSE /\ params' = params
                  /\ lambda' = Mul(lambda, Ten)]_vars

\* The initialParams of the run of optimize under way: fit's estimate from
\* the valid data, or the argument of a direct call.
InitialParams == IF last.op = "fit" THEN EstimateInitialParams(data) ELSE last.args[2]

\* C22: optimize returns the best parameters found.  The loop can be left
\* after any pass (convergence, lambda ceiling, iteration budget), so the
\* vector held after a pass is one that can be returned: its SSR is no greater
\* than the SSR of the vector held before the pass and than the SSR of the
\* bounded initial parameters.
C22_ReturnsBestFound ==
    [][(pc = "opt" /\ pc' \in {"opt", "ret"}) =>
          /\ ~Gt(CalculateSSR(data, params'), CalculateSSR(data, params))
          /\ ~Gt(CalculateSSR(data, params'),
                 CalculateSSR(data, ApplyBounds(InitialParams)))]_vars

\* C23: lambda is 0.001 when the first iteration begins, and whenever an
\* iteration begins 1e-10 <= lambda <= 1e15: after lambda has exceeded 1e15,
\* on a failed solve or on a rejected step, no iteration begins.
C23_LambdaInRange ==
    pc = "opt" =>
        /\ iter = 0 => lambda = Fin(1, -3)
        /\ Ge(lambda, Fin(1, -10))
        /\ Le(lambda, Fin(1, 15))

\* An iteration begins with lambda at the ceiling, after 18 steps that were
\* failed or rejected.
C23_AtCeiling == pc = "opt" /\ lambda = Fin(1, 15) /\ iter = 18

\* The failed or rejected passes that can follow one another from lambda = l:
\* each multiplies lambda by 10, and the one that takes it above the ceiling
\* leaves the loop.
RECURSIVE RejectionsLeft(_)
RejectionsLeft(l) ==
    IF Rejected(NoParams, l, Zero).brk = "lambda" THEN 1
    ELSE 1 + RejectionsLeft(Rejected(NoParams, l, Zero).lambda)

\* The passes of the loop made in the run: the pass that breaks does not
\* reach iter++.
Passes == IF exit \in {"lambda", "converged"} THEN iter + 1 ELSE iter

\* The run has ended and no pass of it adopted its candidate.  A pass
\* multiplies lambda by 10 or, adopting, divides it by 10 down to the floor:
\* lambda is 0.001 * 10^n after n passes exactly when none of them adopted.
EndedWithoutAdoption == pc = "ret" /\ lambda = Fin(1, Passes - 3)

\* At most 26 failed or rejected passes follow one another, and a run without
\* an adopted step ends after exactly 19 passes with the bounded initial
\* parameters.
C24_NineteenPassesAlways ==
    /\ pc = "opt" => RejectionsLeft(lambda) <= 26
    /\ EndedWithoutAdoption => (Passes = 19 /\ params = ApplyBounds(InitialParams))

\* C24: whenever an iteration begins at most 26 failed or rejected passes can
\* follow one another before the loop is left, and a run without an adopted
\* step returns the bounded initial parameters, after exactly 19 passes at the
\* lambda ceiling (lambda 1e16) when maxIterations >= 19 and after
\* maxIterations passes otherwise.
C24_BoundedRejections ==
    /\ pc = "opt" => RejectionsLeft(lambda) <= 26
    /\ EndedWithoutAdoption =>
          /\ params = ApplyBounds(InitialParams)
          /\ IF maxIterations >= 19
             THEN Passes = 19 /\ exit = "lambda" /\ lambda = Fin(1, 16)
             ELSE Passes = maxIterations /\ exit = "budget"

\* A run of fit in which no pass adopted its candidate has left the loop at
\* the lambda ceiling in its 19th pass.
C24_NineteenRejectedPasses ==
    EndedWithoutAdoption /\ caller = "fit" /\ exit = "lambda" /\ iter = 18

\* ratio = (A - D) / (y - D) - 1 of inverse4PL.
Ratio(y, p) == Sub(Div(Sub(p.A, p.D), Sub(y, p.D)), One)

\* C25: once the range check of inverse4PL has passed (min(A, D) < y <
\* max(A, D)), ratio is strictly positive: the branch of ratio <= 0 is not
\* taken, and a null result means that y is out of range.
C25_RatioStrictlyPositive ==
    last.op = "inverse4PL" =>
        /\ ~OutOfRange(last.args[1], last.args[2])
              => Gt(Ratio(last.args[1], last.args[2]), Zero)
        /\ last.ret = Null => OutOfRange(last.args[1], last.args[2])

\* C26: regularizedIncompleteBeta(x, a, b) with a, b > 0 returns after at
\* most one symmetry swap and at most 200 passes of the continued fraction,
\* and each logGamma it calls makes at most one nested call.
C26_SpecialFunctionsBounded ==
    (/\ pc = "idle"
     /\ last.op = "regularizedIncompleteBeta"
     /\ Gt(last.args[2], Zero)
     /\ Gt(last.args[3], Zero)) =>
        /\ last.status = "ok"
        /\ SymmetrySwaps(last.args[1], last.args[2], last.args[3], 0) <= 1
        /\ LentzPasses(last.args[4]) <= 200
        /\ LogGammaReflections(last.args[2]) <= 1
        /\ LogGammaReflections(last.args[3]) <= 1
        /\ LogGammaReflections(Add(last.args[2], last.args[3])) <= 1

\* C27: every comparison made by tukeyHSD has 0.0001 <= pValue <= 1, so no
\* comparison of tukeyHSD or of analyzeDay's tukeyResults, and no entry of
\* significantPairs of an analysis of 3 or more groups, carries '****'.
C27_TukeyPValueFloored ==
    /\ \A n \in 1..Len(Comparisons) :
          /\ Ge(Comparisons[n].pValue, Fin(1, -4))
          /\ Le(Comparisons[n].pValue, One)
          /\ Comparisons[n].significance # "****"
    /\ (DayReturned /\ Cardinality(Present) >= 3) =>
          \A n \in 1..Len(last.ret.significantPairs) :
              last.ret.significantPairs[n].significance # "****"

\* groupedData with every sample replaced by the number it stands for.
NumericData(groupedData) ==
    [c \in DOMAIN groupedData |->
        [d \in DOMAIN groupedData[c] |->
            [i \in 1..Len(groupedData[c][d]) |-> NumericValue(groupedData[c][d][i])]]]

\* C28: calculateGlobalPooledVariance and analyzeDay return what they return
\* for the numeric values of the samples, whether a sample is a number or an
\* object {value, plateIdx, wellId}, an object of value 0 counting as 0.
C28_SamplesByNumericValue ==
    /\ (pc = "idle" /\ last.op = "calculateGlobalPooledVariance") =>
          last.ret = CalculateGlobalPooledVariance(NumericData(last.args[1]), last.args[2])
    /\ (pc = "idle" /\ last.op = "analyzeDay") =>
          /\ last.status = "ok"
          /\ \E cf \in CFResults :
                last.ret = DayFromGroups(DayGroups(NumericData(last.args[1]), last.args[2],
                                                   last.args[3]),
                                         last.args[4], cf)

(***************************************************************************)
(* ELISAPlateAnalyzer: the plates, the plate shown and the fits of plates  *)
(***************************************************************************)

\* Rounds of createEmptyPlate calls followed, and files read at one time.
MaxGenerations == 3

MaxReads == 1

\* The string whose text is the integer n.
Str(n) == <<"str", n, 0>>

\* The number a value is compared as by < and >=.
ToNumber(v) ==
    IF v[1] = "str" THEN FromInt(v[2])
    ELSE IF v = Null THEN Zero
    ELSE IF v = Undefined THEN NaN
    ELSE v

\* The array index a value names when it is used as a property key, or -1:
\* a non-negative integer, as a number or as the string of its digits.
ElementIndex(v) ==
    IF v[1] = "str" /\ v[2] >= 0 THEN v[2]
    ELSE IF v[1] = "fin" /\ v[2] >= 0 /\ v[3] >= 0 THEN v[2] * (10 ^ v[3])
    ELSE -1

\* array[v]
ElementOf(array, v) ==
    IF ElementIndex(v) \in DOMAIN array THEN array[ElementIndex(v)] ELSE Undefined

\* ps[v] as a reference to the plate object.
PlateAt(ps, v) ==
    IF ElementIndex(v) \in DOMAIN ps THEN ps[ElementIndex(v)].ref ELSE Undefined

\* The round of createEmptyPlate calls that made the plates of this.plates.
Generation == plates[0].ref[2]

\* The params object fit returns for the standards of a plate, and a
\* concentration calculateConcentration computes from such params: what is
\* followed is the plate object whose standards the parameters were fitted on.
FittedOn(ref) == <<"params", ref[2], ref[3]>>

ConcentrationFrom(p) == <<"conc", p[2], p[3]>>

\* if (params): null and undefined are falsy, a params object is truthy.
Truthy(v) == v[1] = "params"

\* The wells a layout of a CSV file fills: 4 standards and a sample, or one
\* standard and a sample.
Filled(type, concentration, absorbance) ==
    [type |-> type, concentration |-> concentration, absorbance |-> absorbance]

StandardsLayout ==
    [w \in WellIds |->
        CASE w = "A1" -> Filled("standard", One, Fin(1, -1))
          [] w = "B1" -> Filled("standard", FromInt(10), Fin(5, -1))
          [] w = "C1" -> Filled("standard", FromInt(100), Fin(12, -1))
          [] w = "D1" -> Filled("standard", FromInt(1000), Fin(19, -1))
          [] OTHER -> Filled("sample", Null, Fin(8, -1))]

SamplesLayout ==
    [w \in WellIds |->
        CASE w = "A1" -> Filled("standard", One, Fin(1, -1))
          [] w = "E1" -> Filled("sample", Null, Fin(8, -1))
          [] OTHER -> Filled("empty", Null, Null)]

\* The files imported: the layouts of their plates, 8 rows each.
CsvFiles ==
    {<<>>, <<StandardsLayout, StandardsLayout>>, <<SamplesLayout, StandardsLayout>>}

\* applyCombinedRowsToPlate(rows, plateIndex) on the plate object.
ApplyCombinedRowsToPlate(layout, plate) ==
    [plate EXCEPT !.wells =
        [w \in WellIds |->
            [type |-> layout[w].type, concentration |-> layout[w].concentration,
             absorbance |-> layout[w].absorbance,
             calculatedConcentration |-> plate.wells[w].calculatedConcentration]]]

\* this.plates after the onload of handleMultiPlateCsvImport: 10 new plates,
\* the first numPlates of them filled from the file.
ImportedPlates(file, g) ==
    [i \in 0..(NumPlates - 1) |->
        IF i < Len(file)
        THEN ApplyCombinedRowsToPlate(file[i + 1], CreateEmptyPlate(PlateRef(g, i)))
        ELSE CreateEmptyPlate(PlateRef(g, i))]

\* standardsData.length >= 4 in fitCurve: the standards with a concentration
\* and an absorbance (the layouts give each standard its own concentration).
HasFourStandards(plate) ==
    Cardinality({w \in WellIds : /\ plate.wells[w].type = "standard"
                                 /\ plate.wells[w].concentration # Null
                                 /\ plate.wells[w].absorbance # Null}) >= 4

\* this.plateParams after the loop of fitCurve.
FittedPlateParams(ps) ==
    [i \in 0..(NumPlates - 1) |->
        IF HasFourStandards(ps[i]) THEN FittedOn(ps[i].ref) ELSE Null]

\* updateCalculations(): calculatedConcentration of every well of every plate.
UpdateCalculations(ps, pp) ==
    [i \in DOMAIN ps |->
        [ps[i] EXCEPT !.wells =
            [w \in WellIds |->
                [ps[i].wells[w] EXCEPT !.calculatedConcentration =
                    IF /\ Truthy(ElementOf(pp, FromInt(i)))
                       /\ ps[i].wells[w].absorbance # Null
                       /\ ps[i].wells[w].type \in {"sample", "standard"}
                    THEN ConcentrationFrom(ElementOf(pp, FromInt(i)))
                    ELSE Null]]]]

\* The selected wells of the plate this.plateData refers to become empty.
ClearedWells(ps, ref, selected) ==
    [i \in DOMAIN ps |->
        IF ps[i].ref = ref
        THEN [ps[i] EXCEPT !.wells =
                 [w \in WellIds |-> IF w \in selected THEN EmptyWell ELSE ps[i].wells[w]]]
        ELSE ps[i]]

\* The fitter's own fields and the loop of optimize are not followed here.
PlateStep(call) ==
    /\ pc = "idle"
    /\ last' = call
    /\ UNCHANGED <<pc, loopVars, fitterVars>>

\* switchPlate(plateIndex).  refreshPlateDisplay throws when plateData is
\* undefined, after the fields are assigned.
SwitchPlateDone(plateIndex) ==
    /\ currentPlateIndex' = plateIndex
    /\ plateData' = PlateAt(plates, plateIndex)
    /\ fittedParams' = ElementOf(plateParams', plateIndex)

SwitchPlate(plateIndex) ==
    IF Lt(ToNumber(plateIndex), Zero) \/ Ge(ToNumber(plateIndex), Ten)
    THEN /\ PlateStep(Call("switchPlate", <<plateIndex>>, "ok", Null))
         /\ UNCHANGED plateVars
    ELSE /\ PlateStep(Call("switchPlate", <<plateIndex>>,
                           IF PlateAt(plates, plateIndex) = Undefined THEN "throw" ELSE "ok",
                           Null))
         /\ UNCHANGED <<plates, plateParams, selectedWells, reads>>
         /\ SwitchPlateDone(plateIndex)

\* clearAll(), with the answer to its confirm dialog.
ClearAll(confirmed) ==
    /\ PlateStep(Call("clearAll", <<confirmed>>, "ok", Null))
    /\ IF ~confirmed THEN UNCHANGED plateVars
       ELSE /\ Generation < MaxGenerations
            /\ plates' = EmptyPlates(Generation + 1)
            /\ plateData' = plates'[0].ref
            /\ fittedParams' = Null
            /\ currentPlateIndex' = Zero
            /\ selectedWells' = {}
            /\ UNCHANGED <<plateParams, reads>>

\* clearAllPlateData()
ClearAllPlateData ==
    /\ PlateStep(Call("clearAllPlateData", <<>>, "ok", Null))
    /\ Generation < MaxGenerations
    /\ plates' = EmptyPlates(Generation + 1)
    /\ plateData' = plates'[0].ref
    /\ currentPlateIndex' = Zero
    /\ UNCHANGED <<plateParams, fittedParams, selectedWells, reads>>

\* The first index of FittedPlateParams(ps) that is not null.
FirstFittedIndex(ps) ==
    CHOOSE i \in 0..(NumPlates - 1) :
        /\ HasFourStandards(ps[i])
        /\ \A j \in 0..(i - 1) : ~HasFourStandards(ps[j])

\* fitCurve(), with the answer to its confirm dialog when it asks.
FitCurve(confirmed) ==
    /\ PlateStep(Call("fitCurve", <<>>, "ok", Null))
    /\ plateParams' = FittedPlateParams(plates)
    /\ IF \A i \in 0..(NumPlates - 1) : ~HasFourStandards(plates[i])
       THEN UNCHANGED <<plates, plateData, currentPlateIndex, fittedParams>>
       ELSE IF Truthy(ElementOf(plateParams', currentPlateIndex)) \/ ~confirmed
       THEN /\ fittedParams' = ElementOf(plateParams', currentPlateIndex)
            /\ plates' = UpdateCalculations(plates, plateParams')
            /\ UNCHANGED <<plateData, currentPlateIndex>>
       ELSE /\ SwitchPlateDone(FromInt(FirstFittedIndex(plates)))
            /\ UNCHANGED plates
    /\ UNCHANGED <<selectedWells, reads>>

\* selectAllWells(): Object.keys(this.plateData) throws on undefined.
SelectAllWells ==
    /\ PlateStep(Call("selectAllWells", <<>>,
                      IF plateData = Undefined THEN "throw" ELSE "ok", Null))
    /\ selectedWells' = IF plateData = Undefined THEN selectedWells ELSE WellIds
    /\ UNCHANGED <<plates, plateData, currentPlateIndex, plateParams, fittedParams, reads>>

\* clearSelectedWells(), with the answer to its confirm dialog.
ClearSelectedWells(confirmed) ==
    IF selectedWells = {} \/ ~confirmed
    THEN /\ PlateStep(Call("clearSelectedWells", <<confirmed>>, "ok", Null))
         /\ UNCHANGED plateVars
    ELSE IF plateData = Undefined
    THEN /\ PlateStep(Call("clearSelectedWells", <<confirmed>>, "throw", Null))
         /\ UNCHANGED plateVars
    ELSE /\ PlateStep(Call("clearSelectedWells", <<confirmed>>, "ok", Null))
         /\ plates' = IF Truthy(fittedParams)
                      THEN UpdateCalculations(ClearedWells(plates, plateData, selectedWells),
                                              plateParams)
                      ELSE ClearedWells(plates, plateData, selectedWells)
         /\ UNCHANGED <<plateData, currentPlateIndex, plateParams, fittedParams,
                        selectedWells, reads>>

\* handleMultiPlateCsvImport(file): a FileReader starts to read the file.
HandleMultiPlateCsvImport(file) ==
    /\ Len(reads) < MaxReads
    /\ PlateStep(Call("handleMultiPlateCsvImport", <<file>>, "ok", Null))
    /\ reads' = Append(reads, file)
    /\ UNCHANGED <<plates, plateData, currentPlateIndex, plateParams, fittedParams,
                   selectedWells>>

\* reader.onload of handleMultiPlateCsvImport for the k-th file being read;
\* what refreshPlateDisplay throws is caught.
ReaderOnload(k) ==
    /\ k \in 1..Len(reads)
    /\ Generation < MaxGenerations
    /\ PlateStep(Call("onload", <<reads[k]>>, "ok", Null))
    /\ plates' = ImportedPlates(reads[k], Generation + 1)
    /\ plateData' = PlateAt(plates', currentPlateIndex)
    /\ reads' = [n \in 1..(Len(reads) - 1) |-> IF n < k THEN reads[n] ELSE reads[n + 1]]
    /\ UNCHANGED <<currentPlateIndex, plateParams, fittedParams, selectedWells>>

\* The arguments switchPlate is called with: indices of plates, indices out
\* of range, NaN (parseInt of a tab without a number), 1.5 and the string '1'.
PlateIndexChoices ==
    {FromInt(-1), Zero, One, FromInt(9), Ten, NaN, Fin(15, -1), Str(1)}

NextPlates ==
    \/ \E plateIndex \in PlateIndexChoices : SwitchPlate(plateIndex)
    \/ \E confirmed \in BOOLEAN : ClearAll(confirmed)
    \/ ClearAllPlateData
    \/ \E confirmed \in BOOLEAN : FitCurve(confirmed)
    \/ SelectAllWells
    \/ \E confirmed \in BOOLEAN : ClearSelectedWells(confirmed)
    \/ \E file \in CsvFiles : HandleMultiPlateCsvImport(file)
    \/ \E k \in 1..MaxReads : ReaderOnload(k)

\* The analyzer from its construction on.
SpecPlates == Init /\ [][NextPlates]_vars

\* C30: currentPlateIndex is an integer in 0..9 and plateData is the plate
\* object plates[currentPlateIndex], whatever switchPlate was called with
\* and after every clearAll, clearAllPlateData, clearSelectedWells and import
\* of a multi-plate CSV file; a switchPlate with an index below 0 or above 9
\* changes nothing.
C30_PlateShownIsCurrentPlate ==
    [][/\ currentPlateIndex' \in {FromInt(i) : i \in 0..(NumPlates - 1)}
       /\ plateData' = plates'[ElementIndex(currentPlateIndex')].ref
       /\ (/\ last'.op = "switchPlate"
           /\ \/ Lt(ToNumber(last'.args[1]), Zero)
              \/ Gt(ToNumber(last'.args[1]), FromInt(NumPlates - 1)))
             => UNCHANGED plateVars]_vars

\* No plate has fitted parameters: none is displayed, none is stored for a
\* plate, and no well holds a concentration calculated from any.
NoFittedParams ==
    /\ ~Truthy(fittedParams)
    /\ \A i \in DOMAIN plateParams : plateParams[i] = Null
    /\ \A i \in DOMAIN plates : \A w \in WellIds :
          plates[i].wells[w].calculatedConcentration = Null

\* C29: a confirmed clearAll and a clearAllPlateData leave no plate with
\* fitted parameters, and while no plate has any, every switchPlate and every
\* import of a CSV file leaves fittedParams null and calculates no
\* concentration: only fitCurve gives a plate parameters again.
C29_ClearedUntilFitCurve ==
    [][/\ (last'.op = "clearAllPlateData" \/ last' = Call("clearAll", <<TRUE>>, "ok", Null))
             => NoFittedParams'
       /\ (NoFittedParams /\ last'.op \in {"switchPlate", "handleMultiPlateCsvImport", "onload"})
             => NoFittedParams']_vars
====
